---- MODULE Spec2Model ----
(***************************************************************************)
(* A model of the gunnir chess board (gunnir-board/src/board.rs), its      *)
(* legal move generator (gunnir-board/src/movegen.rs), the move encoding   *)
(* (gunnir-common/src/move.rs) and the Zobrist hashing protocol            *)
(* (gunnir-board/src/zobrist.rs).                                          *)
(*                                                                         *)
(* A Bitboard is modelled as the set of the squares whose bit is set; a    *)
(* Square is its index 0..63 (A1 = 0, H8 = 63), a File or Rank its index   *)
(* 0..7, a Color and a PieceType their enum discriminant.  A 64-bit        *)
(* Zobrist hash is modelled as the set of the indices of the table keys    *)
(* XORed into it an odd number of times, so that XOR is symmetric          *)
(* difference and two hashes agree iff they agree for every choice of the  *)
(* key values.                                                             *)
(***************************************************************************)
EXTENDS Integers, Sequences, FiniteSets, TLC

(***************************************************************************)
(* Primitive domain types: piece.rs, square.rs                             *)
(***************************************************************************)
White == 0
Black == 1
Colors == {White, Black}

Knight == 0
Bishop == 1
Rook == 2
Queen == 3
Pawn == 4
King == 5
PieceTypes == 0 .. 5
\* Option<PieceType>::None and Option<File>::None
NoPiece == 6
NoFile == 8

FileA == 0
FileC == 2
FileD == 3
FileE == 4
FileF == 5
FileG == 6
FileH == 7
Files == 0 .. 7
Ranks == 0 .. 7
R1 == 0
R2 == 1
R5 == 4
R6 == 5
R8 == 7
Squares == 0 .. 63

\* MoveFlag
FlagNone == 0
FlagCastle == 1
FlagEnPassant == 2
FlagPromotion == 3

Invert(color) == 1 - color

Signum(color) == 1 - 2 * color

\* (color.idx() * 7) ^ rank.idx(): the XOR of a 3-bit value with 7 is 7 - value
RelativeTo(rank, color) == IF color = White THEN rank ELSE 7 - rank

FileOf(sq) == sq % 8

RankOf(sq) == sq \div 8

FromFileRank(file, rank) == rank * 8 + file

RankBB(rank) == {sq \in Squares : RankOf(sq) = rank}

(***************************************************************************)
(* Bitboard operations: bitboard.rs                                        *)
(***************************************************************************)
EMPTY == {}

UNIVERSE == Squares

\* self ^ rhs for a single square
XorSq(bb, sq) == IF sq \in bb THEN bb \ {sq} ELSE bb \cup {sq}

\* trailing_zeros of a non-empty bitboard: the least square
BBNext(bb) == CHOOSE sq \in bb : \A t \in bb : sq <= t

Popcnt(bb) == Cardinality(bb)

\* The squares of a bitboard in iteration order (least significant first)
RECURSIVE BBSeq(_)
BBSeq(bb) == IF bb = {} THEN <<>>
             ELSE LET sq == BBNext(bb) IN <<sq>> \o BBSeq(bb \ {sq})

(***************************************************************************)
(* Attack tables (square_lookups, slider_moves): the contract of the       *)
(* assumed collaborator.                                                   *)
(***************************************************************************)
Abs(n) == IF n < 0 THEN -n ELSE n

Sgn(n) == IF n < 0 THEN -1 ELSE IF n > 0 THEN 1 ELSE 0

OnBoard(f, r) == f \in Files /\ r \in Ranks

Aligned(a, b) ==
    /\ a # b
    /\ \/ FileOf(a) = FileOf(b)
       \/ RankOf(a) = RankOf(b)
       \/ Abs(FileOf(a) - FileOf(b)) = Abs(RankOf(a) - RankOf(b))

OffsetSet(sq, deltas) ==
    {FromFileRank(FileOf(sq) + d[1], RankOf(sq) + d[2]) :
        d \in {e \in deltas : OnBoard(FileOf(sq) + e[1], RankOf(sq) + e[2])}}

KnightMoves ==
    [sq \in Squares |->
        OffsetSet(sq, {<<1, 2>>, <<2, 1>>, <<2, -1>>, <<1, -2>>,
                       <<-1, -2>>, <<-2, -1>>, <<-2, 1>>, <<-1, 2>>})]

KingMoves ==
    [sq \in Squares |->
        OffsetSet(sq, {<<1, 0>>, <<1, 1>>, <<0, 1>>, <<-1, 1>>,
                       <<-1, 0>>, <<-1, -1>>, <<0, -1>>, <<1, -1>>})]

PawnAttacks ==
    [color \in Colors |-> [sq \in Squares |->
        OffsetSet(sq, {<<-1, Signum(color)>>, <<1, Signum(color)>>})]]

Between ==
    [a \in Squares |-> [b \in Squares |->
        IF ~Aligned(a, b) THEN {}
        ELSE LET sf == Sgn(FileOf(b) - FileOf(a))
                 sr == Sgn(RankOf(b) - RankOf(a))
                 n == IF FileOf(a) = FileOf(b)
                      THEN Abs(RankOf(b) - RankOf(a))
                      ELSE Abs(FileOf(b) - FileOf(a))
             IN {FromFileRank(FileOf(a) + k * sf, RankOf(a) + k * sr) :
                    k \in 1 .. (n - 1)}]]

\* The segment with both end points; for squares that are not collinear
\* (a knight giving check) the two end points alone.
BetweenInclusive ==
    [a \in Squares |-> [b \in Squares |-> Between[a][b] \cup {a, b}]]

Line ==
    [a \in Squares |-> [b \in Squares |->
        IF ~Aligned(a, b) THEN {}
        ELSE {s \in Squares : s = a \/ s = b
                \/ (Aligned(s, a) /\ Aligned(s, b)
                    /\ (FileOf(s) - FileOf(a)) * (RankOf(b) - RankOf(a))
                       = (RankOf(s) - RankOf(a)) * (FileOf(b) - FileOf(a)))}]]

RookRays ==
    [sq \in Squares |->
        {t \in Squares : t # sq /\ (FileOf(t) = FileOf(sq) \/ RankOf(t) = RankOf(sq))}]

BishopRays ==
    [sq \in Squares |->
        {t \in Squares : t # sq
            /\ Abs(FileOf(t) - FileOf(sq)) = Abs(RankOf(t) - RankOf(sq))}]

\* Sliding attacks: every square of the ray up to and including the first blocker
rook_moves(sq, blockers) ==
    {t \in RookRays[sq] : Between[sq][t] \cap blockers = {}}

bishop_moves(sq, blockers) ==
    {t \in BishopRays[sq] : Between[sq][t] \cap blockers = {}}

pawn_pushes(sq, color, blockers) ==
    LET r1 == RankOf(sq) + Signum(color)
        one == IF r1 \in Ranks THEN FromFileRank(FileOf(sq), r1) ELSE sq
        two == one + 8 * Signum(color)
    IN IF r1 \notin Ranks \/ one \in blockers THEN {}
       ELSE IF RankOf(sq) = RelativeTo(R2, color) /\ two \notin blockers
            THEN {one, two}
            ELSE {one}

(***************************************************************************)
(* Zobrist table: zobrist.rs.  A key is identified by its position in the  *)
(* table: pieces[col][pt][sq], castles[col][file], en_passant[file],       *)
(* black_to_move.                                                          *)
(***************************************************************************)
ZPiece(sq, pt, col) == col * 384 + pt * 64 + sq

ZCastles(file, col) == 768 + col * 8 + file

ZEnPassant(file) == 784 + file

ZBlackToMove == 792

\* hash ^= key
XorKey(hash, key) == IF key \in hash THEN hash \ {key} ELSE hash \cup {key}

(***************************************************************************)
(* Move encoding: move.rs.  A Move is the 16-bit integer                   *)
(* from | to << 6 | flag << 12 | promotion << 14.                          *)
(***************************************************************************)
MoveNew(from, to, flag) == from + to * 64 + flag * 4096

\* The promotion piece is shifted within 16 bits: the bits above are lost
MoveNewPromotion(from, to, promote_to) ==
    from + to * 64 + FlagPromotion * 4096 + ((promote_to * 16384) % 65536)

MoveFrom(mov) == mov % 64

MoveTo(mov) == (mov \div 64) % 64

MoveFlagOf(mov) == (mov \div 4096) % 4

PromotesToUnchecked(mov) == (mov \div 16384) % 4

PieceMovesNew(move_flag, piece, from, to) ==
    [move_flag |-> move_flag, piece |-> piece, from |-> from, to |-> to]

PieceMovesLen(pm) ==
    Popcnt(pm.to) * (IF pm.move_flag = FlagPromotion THEN 4 ELSE 1)

\* PieceMovesIter::next promoting to the knight first
IterNextKnightFirst(it) ==
    LET from == it.moves.from
        to == BBNext(it.moves.to)
    IN IF it.moves.move_flag = FlagPromotion
       THEN LET idx == it.promote_idx + 1
            IN [mov |-> MoveNewPromotion(from, to, it.promote_idx),
                it |-> IF idx >= 4
                       THEN [moves |-> [it.moves EXCEPT !.to = XorSq(@, to)],
                             promote_idx |-> 0]
                       ELSE [it EXCEPT !.promote_idx = idx]]
       ELSE [mov |-> MoveNew(from, to, it.moves.move_flag),
             it |-> [it EXCEPT !.moves.to = XorSq(@, to)]]

\* PieceMovesIter::next on the iterator [moves, promote_idx] with moves.to
\* non-empty: the move yielded and the iterator afterwards.
IterNext(it) ==
    LET from == it.moves.from
        to == BBNext(it.moves.to)
    IN IF it.moves.move_flag = FlagPromotion
       THEN LET idx == it.promote_idx + 1
            IN [mov |-> MoveNewPromotion(from, to, 3 - it.promote_idx),
                it |-> IF idx >= 4
                       THEN [moves |-> [it.moves EXCEPT !.to = XorSq(@, to)],
                             promote_idx |-> 0]
                       ELSE [it EXCEPT !.promote_idx = idx]]
       ELSE [mov |-> MoveNew(from, to, it.moves.move_flag),
             it |-> [it EXCEPT !.moves.to = XorSq(@, to)]]

\* PieceMovesIter::next panics instead of returning: Move::new expects a
\* non-zero move
IterNextPanics(it) ==
    /\ it.moves.to # {}
    /\ it.moves.move_flag # FlagPromotion
    /\ MoveNew(it.moves.from, BBNext(it.moves.to), it.moves.move_flag) = 0

size_hint(it) == PieceMovesLen(it.moves) - it.promote_idx

into_iter(pm) == [moves |-> pm, promote_idx |-> 0]

RECURSIVE IterCollect(_)
IterCollect(it) ==
    IF it.moves.to = {} THEN <<>>
    ELSE LET n == IterNext(it) IN <<n.mov>> \o IterCollect(n.it)

\* IntoIterator for PieceMoves, collected
Expand(pm) == IterCollect(into_iter(pm))

(***************************************************************************)
(* Board: board.rs                                                         *)
(***************************************************************************)
EmptyBoard ==
    [pieces |-> [pt \in PieceTypes |-> {}],
     mailbox |-> [sq \in Squares |-> NoPiece],
     occupied |-> [c \in Colors |-> {}],
     castles |-> [c \in Colors |-> [short |-> NoFile, long |-> NoFile]],
     en_passant |-> NoFile,
     pinned |-> {},
     checkers |-> {},
     halfmove_clock |-> 0,
     fullmove_count |-> 0,
     stm |-> White,
     hash |-> {}]

occupied(b) == b.occupied[White] \cup b.occupied[Black]

colored_pieces(b, pt, color) == b.pieces[pt] \cap b.occupied[color]

piece_on(b, sq) == b.mailbox[sq]

colored_piece_on(b, sq, color) ==
    IF sq \in b.occupied[color] THEN b.mailbox[sq] ELSE NoPiece

king(b, color) == BBNext(colored_pieces(b, King, color))

colored_orth_sliders(b, color) ==
    colored_pieces(b, Rook, color) \cup colored_pieces(b, Queen, color)

colored_diag_sliders(b, color) ==
    colored_pieces(b, Bishop, color) \cup colored_pieces(b, Queen, color)

toggle_square(b, sq, color, pt) ==
    [b EXCEPT !.pieces[pt] = XorSq(@, sq),
              !.occupied[color] = XorSq(@, sq),
              !.hash = XorKey(@, ZPiece(sq, pt, color))]

set_en_passant(b, f) ==
    LET old == b.en_passant
        h1 == IF old # NoFile THEN XorKey(b.hash, ZEnPassant(old)) ELSE b.hash
        h2 == IF f # NoFile THEN XorKey(h1, ZEnPassant(f)) ELSE h1
    IN [b EXCEPT !.en_passant = f, !.hash = h2]

set_castles(b, color, castles, short) ==
    LET old == IF short THEN b.castles[color].short ELSE b.castles[color].long
        h1 == IF old # NoFile THEN XorKey(b.hash, ZCastles(old, color)) ELSE b.hash
        h2 == IF castles # NoFile THEN XorKey(h1, ZCastles(castles, color)) ELSE h1
    IN IF short
       THEN [b EXCEPT !.castles[color].short = castles, !.hash = h2]
       ELSE [b EXCEPT !.castles[color].long = castles, !.hash = h2]

(***************************************************************************)
(* Pin and check recomputation: movegen.rs                                 *)
(***************************************************************************)
\* calc_pinned_and_checkers that sees no check by a slider
CalcCheckersOfLeapers(b) ==
    [b EXCEPT !.checkers = ((PawnAttacks[b.stm][king(b, b.stm)] \cap b.pieces[Pawn])
                            \cup (KnightMoves[king(b, b.stm)] \cap b.pieces[Knight]))
                           \cap b.occupied[Invert(b.stm)],
              !.pinned = {}]

calc_pinned_and_checkers(b) ==
    LET our_king == king(b, b.stm)
        occ == occupied(b)
        leapers == ((PawnAttacks[b.stm][our_king] \cap b.pieces[Pawn])
                    \cup (KnightMoves[our_king] \cap b.pieces[Knight]))
                   \cap b.occupied[Invert(b.stm)]
        orth == b.pieces[Rook] \cup b.pieces[Queen]
        diag == b.pieces[Bishop] \cup b.pieces[Queen]
        attackers == b.occupied[Invert(b.stm)]
                     \cap ((orth \cap RookRays[our_king])
                           \cup (diag \cap BishopRays[our_king]))
        sliders == {a \in attackers : Between[a][our_king] \cap occ = {}}
        pinned1 == UNION {Between[a][our_king] \cap occ :
                            a \in {x \in attackers :
                                    Popcnt(Between[x][our_king] \cap occ) = 1}}
        their_king == king(b, Invert(b.stm))
        attackers2 == b.occupied[b.stm]
                      \cap ((orth \cap RookRays[their_king])
                            \cup (diag \cap BishopRays[their_king]))
        pinned2 == UNION {Between[a][their_king] \cap occ \cap b.occupied[Invert(b.stm)] :
                            a \in {x \in attackers2 :
                                    Popcnt(Between[x][their_king] \cap occ) = 1}}
    IN [b EXCEPT !.checkers = leapers \cup sliders,
                 !.pinned = pinned1 \cup pinned2]

(***************************************************************************)
(* make_move: board.rs                                                     *)
(***************************************************************************)
\* The capture branch without the update of the castling rights
RemoveVictimKeepsRights(b, to, victim) == toggle_square(b, to, Invert(b.stm), victim)

\* The capture branch: remove the victim and, for a rook on the opponent's
\* back rank, the castling right it carried.
RemoveVictim(b, to, victim) ==
    LET opp == Invert(b.stm)
        t == toggle_square(b, to, opp, victim)
        their_back_rank == RelativeTo(R8, b.stm)
    IN IF victim = Rook /\ RankOf(to) = their_back_rank
       THEN IF t.castles[opp].short = FileOf(to)
            THEN set_castles(t, opp, NoFile, TRUE)
            ELSE IF t.castles[opp].long = FileOf(to)
                 THEN set_castles(t, opp, NoFile, FALSE)
                 ELSE t
       ELSE t

\* MoveFlag::None that never sets en_passant
MakeNoneWithoutEnPassant(b, from, to, piece) ==
    LET t1 == toggle_square(toggle_square(b, from, b.stm, piece), to, b.stm, piece)
        t == [t1 EXCEPT !.mailbox = [@ EXCEPT ![from] = NoPiece, ![to] = piece]]
        back_rank == RelativeTo(R1, t.stm)
    IN CASE piece = King ->
              set_castles(set_castles(t, t.stm, NoFile, TRUE), t.stm, NoFile, FALSE)
         [] piece = Rook ->
              IF RankOf(from) = back_rank
              THEN IF t.castles[t.stm].short = FileOf(from)
                   THEN set_castles(t, t.stm, NoFile, TRUE)
                   ELSE IF t.castles[t.stm].long = FileOf(from)
                        THEN set_castles(t, t.stm, NoFile, FALSE)
                        ELSE t
              ELSE t
         [] OTHER -> t

\* MoveFlag::None that sets en_passant on every double push
MakeNoneEveryDoublePush(b, from, to, piece) ==
    LET t1 == toggle_square(toggle_square(b, from, b.stm, piece), to, b.stm, piece)
        t == [t1 EXCEPT !.mailbox = [@ EXCEPT ![from] = NoPiece, ![to] = piece]]
        back_rank == RelativeTo(R1, t.stm)
    IN CASE piece = King ->
              set_castles(set_castles(t, t.stm, NoFile, TRUE), t.stm, NoFile, FALSE)
         [] piece = Rook ->
              IF RankOf(from) = back_rank
              THEN IF t.castles[t.stm].short = FileOf(from)
                   THEN set_castles(t, t.stm, NoFile, TRUE)
                   ELSE IF t.castles[t.stm].long = FileOf(from)
                        THEN set_castles(t, t.stm, NoFile, FALSE)
                        ELSE t
              ELSE t
         [] piece = Pawn ->
              IF Abs(RankOf(to) - RankOf(from)) = 2
              THEN set_en_passant(t, FileOf(to))
              ELSE t
         [] OTHER -> t

\* MoveFlag::None
MakeNone(b, from, to, piece) ==
    LET t1 == toggle_square(toggle_square(b, from, b.stm, piece), to, b.stm, piece)
        t == [t1 EXCEPT !.mailbox = [@ EXCEPT ![from] = NoPiece, ![to] = piece]]
        back_rank == RelativeTo(R1, t.stm)
    IN CASE piece = King ->
              set_castles(set_castles(t, t.stm, NoFile, TRUE), t.stm, NoFile, FALSE)
         [] piece = Rook ->
              IF RankOf(from) = back_rank
              THEN IF t.castles[t.stm].short = FileOf(from)
                   THEN set_castles(t, t.stm, NoFile, TRUE)
                   ELSE IF t.castles[t.stm].long = FileOf(from)
                        THEN set_castles(t, t.stm, NoFile, FALSE)
                        ELSE t
              ELSE t
         [] piece = Pawn ->
              IF Abs(RankOf(to) - RankOf(from)) = 2
                 /\ colored_pieces(t, Pawn, Invert(t.stm))
                      \cap PawnAttacks[t.stm][from + 8 * Signum(t.stm)] # {}
              THEN set_en_passant(t, FileOf(to))
              ELSE t
         [] OTHER -> t

\* MoveFlag::Castle with the mailbox squares of the origins cleared after the
\* destinations are written
MakeCastleClearsLast(b, from, to) ==
    LET short == FileOf(to) = FileG
        rook_from == FromFileRank(IF short THEN b.castles[b.stm].short
                                  ELSE b.castles[b.stm].long, RankOf(to))
        rook_to == FromFileRank(IF short THEN FileF ELSE FileD, RankOf(to))
        t1 == toggle_square(toggle_square(b, from, b.stm, King), to, b.stm, King)
        t2 == toggle_square(toggle_square(t1, rook_from, b.stm, Rook),
                            rook_to, b.stm, Rook)
        t == [t2 EXCEPT !.mailbox = [@ EXCEPT ![to] = King,
                                              ![rook_to] = Rook,
                                              ![from] = NoPiece,
                                              ![rook_from] = NoPiece]]
    IN set_castles(set_castles(t, t.stm, NoFile, TRUE), t.stm, NoFile, FALSE)

\* MoveFlag::Castle
MakeCastle(b, from, to) ==
    LET short == FileOf(to) = FileG
        rook_from == FromFileRank(IF short THEN b.castles[b.stm].short
                                  ELSE b.castles[b.stm].long, RankOf(to))
        rook_to == FromFileRank(IF short THEN FileF ELSE FileD, RankOf(to))
        t1 == toggle_square(toggle_square(b, from, b.stm, King), to, b.stm, King)
        t2 == toggle_square(toggle_square(t1, rook_from, b.stm, Rook),
                            rook_to, b.stm, Rook)
        t == [t2 EXCEPT !.mailbox = [@ EXCEPT ![from] = NoPiece,
                                              ![rook_from] = NoPiece,
                                              ![to] = King,
                                              ![rook_to] = Rook]]
    IN set_castles(set_castles(t, t.stm, NoFile, TRUE), t.stm, NoFile, FALSE)

\* MoveFlag::EnPassant without the mailbox update of the captured pawn's square
MakeEnPassantKeepsMailbox(b, from, to) ==
    LET target_square == FromFileRank(FileOf(to), RankOf(from))
        t1 == toggle_square(toggle_square(b, from, b.stm, Pawn), to, b.stm, Pawn)
        t2 == [t1 EXCEPT !.mailbox = [@ EXCEPT ![from] = NoPiece, ![to] = Pawn]]
    IN toggle_square(t2, target_square, Invert(b.stm), Pawn)

\* MoveFlag::EnPassant
MakeEnPassant(b, from, to) ==
    LET target_square == FromFileRank(FileOf(to), RankOf(from))
        t1 == toggle_square(toggle_square(b, from, b.stm, Pawn), to, b.stm, Pawn)
        t2 == [t1 EXCEPT !.mailbox = [@ EXCEPT ![from] = NoPiece, ![to] = Pawn]]
        t3 == toggle_square(t2, target_square, Invert(b.stm), Pawn)
    IN [t3 EXCEPT !.mailbox[target_square] = NoPiece]

\* MoveFlag::Promotion
MakePromotion(b, from, to, promotion) ==
    LET t1 == toggle_square(toggle_square(b, from, b.stm, Pawn), to, b.stm, promotion)
    IN [t1 EXCEPT !.mailbox = [@ EXCEPT ![from] = NoPiece, ![to] = promotion]]

\* make_move up to the recomputation of pinned and checkers
apply_move(b, mov) ==
    LET from == MoveFrom(mov)
        to == MoveTo(mov)
        flag == MoveFlagOf(mov)
        promotion == PromotesToUnchecked(mov)
        b1 == [b EXCEPT !.halfmove_clock = @ + 1,
                        !.fullmove_count = @ + (IF b.stm = Black THEN 1 ELSE 0)]
        b2 == set_en_passant(b1, NoFile)
        piece == piece_on(b2, from)
        victim == piece_on(b2, to)
        b3 == IF piece = Pawn \/ victim # NoPiece
              THEN [b2 EXCEPT !.halfmove_clock = 0] ELSE b2
        b4 == IF victim # NoPiece /\ flag # FlagCastle
              THEN RemoveVictim(b3, to, victim) ELSE b3
        b5 == CASE flag = FlagNone -> MakeNone(b4, from, to, piece)
                [] flag = FlagCastle -> MakeCastle(b4, from, to)
                [] flag = FlagEnPassant -> MakeEnPassant(b4, from, to)
                [] flag = FlagPromotion -> MakePromotion(b4, from, to, promotion)
    IN [b5 EXCEPT !.stm = Invert(@), !.hash = XorKey(@, ZBlackToMove)]

make_move(b, mov) == calc_pinned_and_checkers(apply_move(b, mov))

(***************************************************************************)
(* make_move of src/board.rs: a board without a hash, en_passant set on     *)
(* every double push.                                                      *)
(***************************************************************************)
\* The Board of src/board.rs holding the position of a gunnir-board Board
OldBoard(b) ==
    [pieces |-> b.pieces,
     mailbox |-> b.mailbox,
     occupied |-> b.occupied,
     castles |-> b.castles,
     en_passant |-> b.en_passant,
     pinned |-> b.pinned,
     checkers |-> b.checkers,
     halfmove_clock |-> b.halfmove_clock,
     fullmove_count |-> b.fullmove_count,
     stm |-> b.stm]

old_toggle_square(b, sq, color, pt) ==
    [b EXCEPT !.pieces[pt] = XorSq(@, sq),
              !.occupied[color] = XorSq(@, sq)]

NoCastlingRights == [short |-> NoFile, long |-> NoFile]

OldRemoveVictim(b, to, victim) ==
    LET opp == Invert(b.stm)
        t == old_toggle_square(b, to, opp, victim)
        their_back_rank == RelativeTo(R8, b.stm)
    IN IF victim = Rook /\ RankOf(to) = their_back_rank
       THEN IF t.castles[opp].short = FileOf(to)
            THEN [t EXCEPT !.castles[opp].short = NoFile]
            ELSE IF t.castles[opp].long = FileOf(to)
                 THEN [t EXCEPT !.castles[opp].long = NoFile]
                 ELSE t
       ELSE t

OldMakeNone(b, from, to, piece) ==
    LET t1 == old_toggle_square(old_toggle_square(b, from, b.stm, piece),
                                to, b.stm, piece)
        t == [t1 EXCEPT !.mailbox = [@ EXCEPT ![from] = NoPiece, ![to] = piece]]
        back_rank == RelativeTo(R1, t.stm)
    IN CASE piece = King -> [t EXCEPT !.castles[t.stm] = NoCastlingRights]
         [] piece = Rook ->
              IF RankOf(from) = back_rank
              THEN IF t.castles[t.stm].short = FileOf(from)
                   THEN [t EXCEPT !.castles[t.stm].short = NoFile]
                   ELSE IF t.castles[t.stm].long = FileOf(from)
                        THEN [t EXCEPT !.castles[t.stm].long = NoFile]
                        ELSE t
              ELSE t
         [] piece = Pawn ->
              IF Abs(RankOf(to) - RankOf(from)) = 2
              THEN [t EXCEPT !.en_passant = FileOf(to)]
              ELSE t
         [] OTHER -> t

OldMakeCastle(b, from, to) ==
    LET short == FileOf(to) = FileG
        rook_from == FromFileRank(IF short THEN b.castles[b.stm].short
                                  ELSE b.castles[b.stm].long, RankOf(to))
        rook_to == FromFileRank(IF short THEN FileF ELSE FileD, RankOf(to))
        t1 == old_toggle_square(old_toggle_square(b, from, b.stm, King),
                                to, b.stm, King)
        t2 == old_toggle_square(old_toggle_square(t1, rook_from, b.stm, Rook),
                                rook_to, b.stm, Rook)
        t == [t2 EXCEPT !.mailbox = [@ EXCEPT ![from] = NoPiece,
                                              ![rook_from] = NoPiece,
                                              ![to] = King,
                                              ![rook_to] = Rook]]
    IN [t EXCEPT !.castles[t.stm] = NoCastlingRights]

OldMakeEnPassant(b, from, to) ==
    LET target_square == FromFileRank(FileOf(to), RankOf(from))
        t1 == old_toggle_square(old_toggle_square(b, from, b.stm, Pawn),
                                to, b.stm, Pawn)
        t2 == [t1 EXCEPT !.mailbox = [@ EXCEPT ![from] = NoPiece, ![to] = Pawn]]
        t3 == old_toggle_square(t2, target_square, Invert(b.stm), Pawn)
    IN [t3 EXCEPT !.mailbox[target_square] = NoPiece]

OldMakePromotion(b, from, to, promotion) ==
    LET t1 == old_toggle_square(old_toggle_square(b, from, b.stm, Pawn),
                                to, b.stm, promotion)
    IN [t1 EXCEPT !.mailbox = [@ EXCEPT ![from] = NoPiece, ![to] = promotion]]

old_apply_move(b, mov) ==
    LET from == MoveFrom(mov)
        to == MoveTo(mov)
        flag == MoveFlagOf(mov)
        promotion == PromotesToUnchecked(mov)
        b1 == [b EXCEPT !.halfmove_clock = @ + 1,
                        !.fullmove_count = @ + (IF b.stm = Black THEN 1 ELSE 0)]
        b2 == [b1 EXCEPT !.en_passant = NoFile]
        piece == piece_on(b2, from)
        victim == piece_on(b2, to)
        b3 == IF piece = Pawn \/ victim # NoPiece
              THEN [b2 EXCEPT !.halfmove_clock = 0] ELSE b2
        b4 == IF victim # NoPiece /\ flag # FlagCastle
              THEN OldRemoveVictim(b3, to, victim) ELSE b3
        b5 == CASE flag = FlagNone -> OldMakeNone(b4, from, to, piece)
                [] flag = FlagCastle -> OldMakeCastle(b4, from, to)
                [] flag = FlagEnPassant -> OldMakeEnPassant(b4, from, to)
                [] flag = FlagPromotion -> OldMakePromotion(b4, from, to, promotion)
    IN [b5 EXCEPT !.stm = Invert(@)]

\* make_move of src/board.rs
old_make_move(b, mov) == calc_pinned_and_checkers(old_apply_move(b, mov))

old_make_move_panics(b, mov) ==
    \/ piece_on(b, MoveFrom(mov)) = NoPiece
    \/ /\ MoveFlagOf(mov) = FlagCastle
       /\ (IF FileOf(MoveTo(mov)) = FileG THEN b.castles[b.stm].short
           ELSE b.castles[b.stm].long) = NoFile
    \/ \E c \in Colors : colored_pieces(old_apply_move(b, mov), King, c) = {}

\* make_move panics instead of returning: the expect on the moved piece, the
\* expect on the castling rook's file, or king() on a board without a king
make_move_panics(b, mov) ==
    \/ piece_on(b, MoveFrom(mov)) = NoPiece
    \/ /\ MoveFlagOf(mov) = FlagCastle
       /\ (IF FileOf(MoveTo(mov)) = FileG THEN b.castles[b.stm].short
           ELSE b.castles[b.stm].long) = NoFile
    \/ \E c \in Colors : colored_pieces(apply_move(b, mov), King, c) = {}

(***************************************************************************)
(* Legal move generation: movegen.rs.  The visitor's calls are modelled as *)
(* the sequence of the PieceMoves batches handed to it, in call order.     *)
(***************************************************************************)
NonEmptyBatches(batches) == SelectSeq(batches, LAMBDA pm : pm.to # {})

\* targets without the restriction to the checker's segment
TargetsIgnoringCheck(b, in_check) == UNIVERSE \ b.occupied[b.stm]

\* targets without the removal of the mover's own squares
TargetsWithOwnPieces(b, in_check) ==
    IF in_check THEN BetweenInclusive[BBNext(b.checkers)][king(b, b.stm)]
    ELSE UNIVERSE

\* targets with the whole line through the checker and the king as the mask
TargetsOnLine(b, in_check) ==
    LET mask == IF in_check
                THEN Line[BBNext(b.checkers)][king(b, b.stm)]
                     \cup {BBNext(b.checkers)}
                ELSE UNIVERSE
    IN mask \ b.occupied[b.stm]

targets(b, in_check) ==
    LET mask == IF in_check
                THEN BetweenInclusive[BBNext(b.checkers)][king(b, b.stm)]
                ELSE UNIVERSE
    IN mask \ b.occupied[b.stm]

\* The flag of a batch of pawn moves
PromotionFlag(to) ==
    IF to \cap (RankBB(R1) \cup RankBB(R8)) # {} THEN FlagPromotion ELSE FlagNone

king_safe_on(b, sq, color, blockers) ==
    LET orth == colored_orth_sliders(b, Invert(color))
        diag == colored_diag_sliders(b, Invert(color))
    IN /\ PawnAttacks[color][sq] \cap colored_pieces(b, Pawn, Invert(color)) = {}
       /\ KnightMoves[sq] \cap colored_pieces(b, Knight, Invert(color)) = {}
       /\ ~(RookRays[sq] \cap orth # {} /\ rook_moves(sq, blockers) \cap orth # {})
       /\ ~(BishopRays[sq] \cap diag # {} /\ bishop_moves(sq, blockers) \cap diag # {})
       /\ sq \notin KingMoves[king(b, Invert(color))]

\* add_pawn_moves without its en passant part
NoEnPassantBatches(b) == <<>>

\* The en passant part of add_pawn_moves: one batch per capturing pawn that
\* does not expose the king to a slider.
EnPassantBatches(b) ==
    IF b.en_passant = NoFile THEN <<>>
    ELSE LET dst_rank == RelativeTo(R6, b.stm)
             push_dir == Signum(b.stm)
             dst == FromFileRank(b.en_passant, dst_rank)
             taken == FromFileRank(b.en_passant, dst_rank - push_dir)
             our_king == king(b, b.stm)
             orth == colored_orth_sliders(b, Invert(b.stm))
             diag == colored_diag_sliders(b, Invert(b.stm))
             pawns == colored_pieces(b, Pawn, b.stm)
             Safe(from) ==
                LET blockers == XorSq(XorSq(occupied(b), from), taken) \cup {dst}
                IN /\ ~(RookRays[our_king] \cap orth # {}
                        /\ rook_moves(our_king, blockers) \cap orth # {})
                   /\ ~(BishopRays[our_king] \cap diag # {}
                        /\ bishop_moves(our_king, blockers) \cap diag # {})
             froms == BBSeq({f \in PawnAttacks[Invert(b.stm)][dst] \cap pawns : Safe(f)})
         IN [i \in 1 .. Len(froms) |->
                PieceMovesNew(FlagEnPassant, Pawn, froms[i], {dst})]

add_pawn_moves(b, in_check) ==
    LET tg == targets(b, in_check)
        blockers == occupied(b)
        pawns == colored_pieces(b, Pawn, b.stm)
        their_pieces == b.occupied[Invert(b.stm)]
        To(from) == (pawn_pushes(from, b.stm, blockers)
                     \cup (PawnAttacks[b.stm][from] \cap their_pieces)) \cap tg
        free == BBSeq(pawns \ b.pinned)
        our_king == king(b, b.stm)
        held == IF in_check THEN <<>> ELSE BBSeq(pawns \cap b.pinned)
        ToPinned(from) == To(from) \cap Line[our_king][from]
    IN NonEmptyBatches([i \in 1 .. Len(free) |->
            PieceMovesNew(PromotionFlag(To(free[i])), Pawn, free[i], To(free[i]))])
       \o NonEmptyBatches([i \in 1 .. Len(held) |->
            PieceMovesNew(PromotionFlag(ToPinned(held[i])), Pawn, held[i],
                          ToPinned(held[i]))])
       \o EnPassantBatches(b)

\* add_knight_moves reading the king's lookup table
AddKnightMovesKingTable(b, in_check) ==
    LET tg == targets(b, in_check)
        knights == BBSeq(colored_pieces(b, Knight, b.stm) \ b.pinned)
    IN NonEmptyBatches([i \in 1 .. Len(knights) |->
            PieceMovesNew(FlagNone, Knight, knights[i], KingMoves[knights[i]] \cap tg)])

add_knight_moves(b, in_check) ==
    LET tg == targets(b, in_check)
        knights == BBSeq(colored_pieces(b, Knight, b.stm) \ b.pinned)
    IN NonEmptyBatches([i \in 1 .. Len(knights) |->
            PieceMovesNew(FlagNone, Knight, knights[i], KnightMoves[knights[i]] \cap tg)])

\* add_slider_moves with slider_moves = rook_moves (orth) or bishop_moves
add_slider_moves(b, in_check, from_bb, orth) ==
    LET tg == targets(b, in_check)
        blockers == occupied(b)
        our_king == king(b, b.stm)
        froms == BBSeq(from_bb)
        To(from) ==
            (IF orth THEN rook_moves(from, blockers) ELSE bishop_moves(from, blockers))
            \cap (IF from \in b.pinned THEN tg \cap Line[our_king][from] ELSE tg)
    IN NonEmptyBatches([i \in 1 .. Len(froms) |->
            PieceMovesNew(FlagNone, piece_on(b, froms[i]), froms[i], To(froms[i]))])

add_orth_sliders(b, in_check) ==
    add_slider_moves(b, in_check, colored_orth_sliders(b, b.stm), TRUE)

add_diag_sliders(b, in_check) ==
    add_slider_moves(b, in_check, colored_diag_sliders(b, b.stm), FALSE)

\* The squares of can_castle no opponent may attack
must_be_safe(king_sq, king_dst) == Between[king_sq][king_dst] \cup {king_dst}

\* must_be_empty without the destination of the rook
MustBeEmptyWithoutRookDst(king_sq, rook, king_dst, rook_dst) ==
    must_be_safe(king_sq, king_dst) \cup Between[king_sq][rook]

\* The squares of can_castle no piece but king and rook may stand on
must_be_empty(king_sq, rook, king_dst, rook_dst) ==
    must_be_safe(king_sq, king_dst) \cup Between[king_sq][rook] \cup {rook_dst}

can_castle(b, king_sq, rook, king_dst, rook_dst, blockers0) ==
    LET blockers == XorSq(blockers0, rook)
    IN /\ rook \notin b.pinned
       /\ blockers \cap must_be_empty(king_sq, rook, king_dst, rook_dst) = {}
       /\ \A sq \in must_be_safe(king_sq, king_dst) :
            king_safe_on(b, sq, b.stm, blockers)

add_king_moves(b, in_check) ==
    LET tg == UNIVERSE \ b.occupied[b.stm]
        king_sq == king(b, b.stm)
        blockers == XorSq(occupied(b), king_sq)
        to == {sq \in tg \cap KingMoves[king_sq] : king_safe_on(b, sq, b.stm, blockers)}
        castles == b.castles[b.stm]
        short == IF castles.short # NoFile
                    /\ can_castle(b, king_sq,
                                  FromFileRank(castles.short, RankOf(king_sq)),
                                  FromFileRank(FileG, RankOf(king_sq)),
                                  FromFileRank(FileF, RankOf(king_sq)), blockers)
                 THEN {FromFileRank(FileG, RankOf(king_sq))} ELSE {}
        long == IF castles.long # NoFile
                   /\ can_castle(b, king_sq,
                                 FromFileRank(castles.long, RankOf(king_sq)),
                                 FromFileRank(FileC, RankOf(king_sq)),
                                 FromFileRank(FileD, RankOf(king_sq)), blockers)
                THEN {FromFileRank(FileC, RankOf(king_sq))} ELSE {}
    IN NonEmptyBatches(<<PieceMovesNew(FlagNone, King, king_sq, to)>>)
       \o (IF in_check THEN <<>>
           ELSE NonEmptyBatches(<<PieceMovesNew(FlagCastle, King, king_sq,
                                                short \cup long)>>))

add_legal_moves(b, in_check) ==
    add_pawn_moves(b, in_check) \o add_knight_moves(b, in_check)
    \o add_orth_sliders(b, in_check) \o add_diag_sliders(b, in_check)
    \o add_king_moves(b, in_check)

\* gen_moves treating a double check as a single one
GenMovesAsSingleCheck(b) ==
    CASE Popcnt(b.checkers) = 0 -> add_legal_moves(b, FALSE)
      [] OTHER -> add_legal_moves(b, TRUE)

gen_moves(b) ==
    CASE Popcnt(b.checkers) = 0 -> add_legal_moves(b, FALSE)
      [] Popcnt(b.checkers) = 1 -> add_legal_moves(b, TRUE)
      [] OTHER -> add_king_moves(b, TRUE)

\* Every move of every batch, in the order a caller iterating the batches sees
RECURSIVE ExpandAll(_)
ExpandAll(batches) ==
    IF batches = <<>> THEN <<>>
    ELSE Expand(Head(batches)) \o ExpandAll(Tail(batches))

GenMoveSeq(b) == ExpandAll(gen_moves(b))

GenMoveSet(b) == {GenMoveSeq(b)[i] : i \in DOMAIN GenMoveSeq(b)}

\* gen_moves panics instead of returning: king() on a board without a king of
\* the side to move, or the unwrap of piece_on for a slider
gen_moves_panics(b) ==
    \/ colored_pieces(b, King, b.stm) = {}
    \/ colored_pieces(b, King, Invert(b.stm)) = {}
    \/ \E sq \in colored_orth_sliders(b, b.stm) \cup colored_diag_sliders(b, b.stm) :
            piece_on(b, sq) = NoPiece

\* perft of main.rs: the moves of a batch are counted by len at depth 1 and
\* iterated at greater depths
RECURSIVE SumLen(_)
SumLen(batches) ==
    IF batches = <<>> THEN 0
    ELSE PieceMovesLen(Head(batches)) + SumLen(Tail(batches))

RECURSIVE perft(_, _)
RECURSIVE PerftSum(_, _, _)
PerftSum(b, movs, depth) ==
    IF movs = <<>> THEN 0
    ELSE perft(make_move(b, Head(movs)), depth - 1) + PerftSum(b, Tail(movs), depth)

perft(b, depth) ==
    IF depth = 0 THEN 1
    ELSE IF depth = 1 THEN SumLen(gen_moves(b))
    ELSE PerftSum(b, GenMoveSeq(b), depth)

(***************************************************************************)
(* read_fen: board.rs.  A FEN is a string; a byte is a string of length 1. *)
(* An Option is the record [ok |-> FALSE] (None) or [ok |-> TRUE, ...].    *)
(***************************************************************************)
None == [ok |-> FALSE]

SomeBoard(b) == [ok |-> TRUE, board |-> b]

SomeNum(n) == [ok |-> TRUE, num |-> n]

Chars(str) == [i \in 1 .. Len(str) |-> SubSeq(str, i, i)]

IndexIn(ch, str) == CHOOSE i \in 0 .. (Len(str) - 1) : SubSeq(str, i + 1, i + 1) = ch

IsIn(ch, str) == \E i \in 1 .. Len(str) : SubSeq(str, i, i) = ch

IsAsciiLowercase(ch) == IsIn(ch, "abcdefghijklmnopqrstuvwxyz")

IsAsciiUppercase(ch) == IsIn(ch, "ABCDEFGHIJKLMNOPQRSTUVWXYZ")

ToAsciiLowercase(ch) ==
    IF IsAsciiUppercase(ch)
    THEN LET i == IndexIn(ch, "ABCDEFGHIJKLMNOPQRSTUVWXYZ")
         IN SubSeq("abcdefghijklmnopqrstuvwxyz", i + 1, i + 1)
    ELSE ch

IsWhitespace(ch) == ch \in {" ", "\t", "\n", "\r"}

\* str::trim on a sequence of bytes
RECURSIVE TrimStart(_)
TrimStart(cs) ==
    IF cs # <<>> /\ IsWhitespace(Head(cs)) THEN TrimStart(Tail(cs)) ELSE cs

RECURSIVE TrimEnd(_)
TrimEnd(cs) ==
    IF cs # <<>> /\ IsWhitespace(cs[Len(cs)])
    THEN TrimEnd(SubSeq(cs, 1, Len(cs) - 1)) ELSE cs

Trim(cs) == TrimEnd(TrimStart(cs))

\* str::split(sep): the pieces between the separators, empty pieces included
RECURSIVE SplitFrom(_, _, _)
SplitFrom(cs, sep, cur) ==
    IF cs = <<>> THEN <<cur>>
    ELSE IF Head(cs) = sep THEN <<cur>> \o SplitFrom(Tail(cs), sep, <<>>)
         ELSE SplitFrom(Tail(cs), sep, Append(cur, Head(cs)))

Split(cs, sep) == SplitFrom(cs, sep, <<>>)

\* str::parse for an unsigned integer type whose maximum has the decimal digits
\* max: an optional '+', then one or more decimal digits, the value not above
\* the maximum.  The value is compared digit by digit, leading zeros dropped.
RECURSIVE DropZeros(_)
DropZeros(cs) == IF Len(cs) > 1 /\ Head(cs) = "0" THEN DropZeros(Tail(cs)) ELSE cs

RECURSIVE DigitsLeq(_, _)
DigitsLeq(cs, max) ==
    IF cs = <<>> THEN TRUE
    ELSE LET c == IndexIn(Head(cs), "0123456789")
             m == IndexIn(Head(max), "0123456789")
         IN IF c < m THEN TRUE
            ELSE IF c > m THEN FALSE
            ELSE DigitsLeq(Tail(cs), Tail(max))

RECURSIVE DigitsValue(_, _)
DigitsValue(cs, acc) ==
    IF cs = <<>> THEN acc
    ELSE DigitsValue(Tail(cs), acc * 10 + IndexIn(Head(cs), "0123456789"))

ParseUnsigned(cs, max) ==
    LET ds == IF cs # <<>> /\ Head(cs) = "+" THEN Tail(cs) ELSE cs
        sig == DropZeros(ds)
    IN IF ds = <<>> \/ \E i \in 1 .. Len(ds) : ~IsIn(ds[i], "0123456789") THEN None
       ELSE IF Len(sig) > Len(max) THEN None
       ELSE IF Len(sig) = Len(max) /\ ~DigitsLeq(sig, Chars(max)) THEN None
       ELSE SomeNum(DigitsValue(sig, 0))

U8Max == "255"

U32Max == "4294967295"

PieceOfChar(ch) ==
    CASE ch = "p" -> Pawn
      [] ch = "n" -> Knight
      [] ch = "b" -> Bishop
      [] ch = "r" -> Rook
      [] ch = "q" -> Queen
      [] ch = "k" -> King
      [] OTHER -> NoPiece

\* The inner loop of the piece placement: the bytes of one rank.  file is a u8.
RECURSIVE PlaceRank(_, _, _, _)
PlaceRank(b, cs, file, rank) ==
    IF cs = <<>> THEN SomeBoard(b)
    ELSE LET ch == Head(cs) IN
         IF IsIn(ch, "1234567")
         THEN PlaceRank(b, Tail(cs), (file + IndexIn(ch, "0123456789")) % 256, rank)
         ELSE IF file >= 8 THEN None
         ELSE LET pt == PieceOfChar(ToAsciiLowercase(ch))
                  color == IF IsAsciiLowercase(ch) THEN Black ELSE White
                  sq == FromFileRank(file, rank)
              IN IF pt = NoPiece THEN None
                 ELSE IF b.mailbox[sq] # NoPiece THEN None
                 ELSE PlaceRank([toggle_square(b, sq, color, pt)
                                    EXCEPT !.mailbox[sq] = pt],
                                Tail(cs), (file + 1) % 256, rank)

\* The outer loop: the ranks from the eighth down; the result carries the
\* rank counter
RECURSIVE PlaceRanks(_, _, _)
PlaceRanks(b, lines, rank) ==
    IF lines = <<>> THEN [ok |-> TRUE, board |-> b, rank |-> rank]
    ELSE IF rank = 0 THEN None
    ELSE IF Head(lines) = <<"8">> THEN PlaceRanks(b, Tail(lines), rank - 1)
    ELSE LET r == PlaceRank(b, Head(lines), 0, rank - 1)
         IN IF r.ok THEN PlaceRanks(r.board, Tail(lines), rank - 1) ELSE None

\* The castling field, one byte at a time
RECURSIVE ReadCastles(_, _)
ReadCastles(b, cs) ==
    IF cs = <<>> THEN SomeBoard(b)
    ELSE LET ch == Head(cs)
             lo == ToAsciiLowercase(ch)
             color == IF IsAsciiLowercase(ch) THEN Black ELSE White
             king_sq == king(b, color)
             rooks == colored_pieces(b, Rook, color)
             right == {f \in FileOf(king_sq) .. 7 :
                         FromFileRank(f, RankOf(king_sq)) \in rooks}
             left == {f \in 0 .. (FileOf(king_sq) - 1) :
                         FromFileRank(f, RankOf(king_sq)) \in rooks}
             file == CASE IsIn(lo, "abcdefgh") -> IndexIn(lo, "abcdefgh")
                       [] lo = "k" /\ right # {} ->
                            CHOOSE f \in right : \A g \in right : f <= g
                       [] lo = "q" /\ left # {} ->
                            CHOOSE f \in left : \A g \in left : f >= g
                       [] OTHER -> NoFile
         IN IF file = NoFile THEN None
            ELSE IF FromFileRank(file, RankOf(king_sq)) \notin rooks THEN None
            ELSE ReadCastles(set_castles(b, color, file, file > FileOf(king_sq)),
                             Tail(cs))

ReadEnPassant(b, cs) ==
    IF cs = <<"-">> THEN SomeBoard(b)
    ELSE IF cs = <<>> \/ ~IsIn(cs[1], "abcdefgh") THEN None
    ELSE IF Len(cs) < 2 \/ cs[2] \notin {"3", "6"} THEN None
    ELSE SomeBoard(set_en_passant(b, IndexIn(cs[1], "abcdefgh")))

\* The halfmove clock check of read_fen, off by one
HalfmoveClockOver(n) == n > 100

\* read_fen rejects a halfmove clock of 100 or more
HalfmoveClockDrawn(n) == n >= 100

read_fen(fen) ==
    LET parts == Split(Trim(Chars(fen)), " ")
    IN IF Len(parts) # 6 THEN None
       ELSE
       LET placed == PlaceRanks(EmptyBoard, Split(parts[1], "/"), 8)
       IN IF ~placed.ok THEN None
          ELSE IF Popcnt(colored_pieces(placed.board, King, White)) # 1
                  \/ Popcnt(colored_pieces(placed.board, King, Black)) # 1
               THEN None
          ELSE IF placed.rank # 0 THEN None
          ELSE IF parts[2] \notin {<<"w">>, <<"b">>} THEN None
          ELSE
          LET b1 == IF parts[2] = <<"b">>
                    THEN [placed.board EXCEPT !.stm = Black,
                                              !.hash = XorKey(@, ZBlackToMove)]
                    ELSE placed.board
              b2 == IF parts[3] = <<"-">> THEN SomeBoard(b1)
                    ELSE ReadCastles(b1, parts[3])
          IN IF ~b2.ok THEN None
             ELSE
             LET b3 == ReadEnPassant(b2.board, parts[4])
             IN IF ~b3.ok THEN None
                ELSE
                LET hmc == ParseUnsigned(parts[5], U8Max)
                    fmc == ParseUnsigned(parts[6], U32Max)
                IN IF ~hmc.ok THEN None
                   ELSE IF HalfmoveClockDrawn(hmc.num) THEN None
                   ELSE IF ~fmc.ok THEN None
                   ELSE SomeBoard(calc_pinned_and_checkers(
                            [b3.board EXCEPT !.halfmove_clock = hmc.num,
                                             !.fullmove_count = fmc.num]))

(***************************************************************************)
(* Board::fen: board.rs                                                    *)
(***************************************************************************)
\* An unsigned integer written with {}: its decimal digits, no leading zero
RECURSIVE Decimal(_)
Decimal(n) ==
    IF n < 10 THEN SubSeq("0123456789", n + 1, n + 1)
    ELSE Decimal(n \div 10) \o SubSeq("0123456789", (n % 10) + 1, (n % 10) + 1)

to_char(pt, color) ==
    LET ch == CASE pt = Knight -> "N"
                [] pt = Bishop -> "B"
                [] pt = Rook -> "R"
                [] pt = Queen -> "Q"
                [] pt = Pawn -> "P"
                [] pt = King -> "K"
    IN IF color = Black THEN ToAsciiLowercase(ch) ELSE ch

\* The loop over the files of one rank, from file on with gap empty squares
\* counted, and the gap still open after the last file
RECURSIVE FenRank(_, _, _, _)
FenRank(b, rank, file, gap) ==
    IF file = 8 THEN (IF gap # 0 THEN Decimal(gap) ELSE "")
    ELSE LET sq == FromFileRank(file, rank)
         IN IF piece_on(b, sq) # NoPiece
            THEN (IF gap # 0 THEN Decimal(gap) ELSE "")
                 \o to_char(piece_on(b, sq),
                            IF sq \in b.occupied[Black] THEN Black ELSE White)
                 \o FenRank(b, rank, file + 1, 0)
            ELSE FenRank(b, rank, file + 1, gap + 1)

\* The loop over the ranks, from rank down to the first
RECURSIVE FenRanks(_, _)
FenRanks(b, rank) ==
    FenRank(b, rank, 0, 0)
    \o (IF rank # R1 THEN "/" \o FenRanks(b, rank - 1) ELSE " ")

FenCastles(b, chess960) ==
    LET Letter(f, ch) == IF ~chess960 THEN ch ELSE SubSeq("ABCDEFGH", f + 1, f + 1)
        castles ==
            (IF b.castles[White].short # NoFile
             THEN Letter(b.castles[White].short, "K") ELSE "")
            \o (IF b.castles[White].long # NoFile
                THEN Letter(b.castles[White].long, "Q") ELSE "")
            \o (IF b.castles[Black].short # NoFile
                THEN ToAsciiLowercase(Letter(b.castles[Black].short, "K")) ELSE "")
            \o (IF b.castles[Black].long # NoFile
                THEN ToAsciiLowercase(Letter(b.castles[Black].long, "Q")) ELSE "")
    IN IF castles = "" THEN "-" ELSE castles

fen(b, chess960) ==
    FenRanks(b, R8) \o (IF b.stm = White THEN "w" ELSE "b") \o " "
    \o FenCastles(b, chess960) \o " "
    \o (IF b.en_passant # NoFile
        THEN SubSeq("abcdefgh", b.en_passant + 1, b.en_passant + 1)
             \o Decimal(RelativeTo(R6, b.stm) + 1)
        ELSE "-")
    \o " " \o Decimal(b.halfmove_clock) \o " " \o Decimal(b.fullmove_count)

\* The release build wraps the u8 file counter of read_fen, the debug build
\* panics: some digit of a rank that is reached pushes the counter past 255
read_fen_overflows(fen_text) ==
    LET parts == Split(Trim(Chars(fen_text)), " ")
    IN /\ Len(parts) = 6
       /\ LET lines == Split(parts[1], "/")
          IN \E k \in 1 .. Len(lines) :
                LET before == PlaceRanks(EmptyBoard, SubSeq(lines, 1, k - 1), 8)
                    cs == lines[k]
                    count[i \in 0 .. Len(cs)] ==
                        IF i = 0 THEN 0
                        ELSE count[i - 1]
                             + (IF IsIn(cs[i], "1234567")
                                THEN IndexIn(cs[i], "0123456789") ELSE 1)
                IN /\ before.ok
                   /\ before.rank > 0
                   /\ cs # <<"8">>
                   /\ \E i \in 1 .. Len(cs) :
                        /\ IsIn(cs[i], "1234567")
                        /\ count[i - 1] <= 255
                        /\ count[i] > 255
                        /\ PlaceRank(before.board, SubSeq(cs, 1, i - 1), 0,
                                     before.rank - 1).ok

StartFen == "rnbqkbnr/pppppppp/8/8/8/8/PPPPPPPP/RNBQKBNR w KQkq - 0 1"

start_pos == read_fen(StartFen).board

(***************************************************************************)
(* parse_move: board.rs                                                    *)
(***************************************************************************)
SomeSquare(sq) == [ok |-> TRUE, sq |-> sq]

SomeMove(mov) == [ok |-> TRUE, mov |-> mov]

\* Square::parse: a file letter a-h followed by a rank digit 1-8
SquareParse(cs) ==
    IF Len(cs) = 2 /\ IsIn(cs[1], "abcdefgh") /\ IsIn(cs[2], "12345678")
    THEN SomeSquare(FromFileRank(IndexIn(cs[1], "abcdefgh"),
                                 IndexIn(cs[2], "12345678")))
    ELSE None

\* PieceType::from_char, NoPiece standing for None
from_char(ch) ==
    LET lo == ToAsciiLowercase(ch)
    IN CASE lo = "n" -> Knight
         [] lo = "b" -> Bishop
         [] lo = "r" -> Rook
         [] lo = "q" -> Queen
         [] lo = "p" -> Pawn
         [] lo = "k" -> King
         [] OTHER -> NoPiece

\* The Castle, EnPassant or None move of a text without a promotion letter
ParseUnpromoted(b, from, to, chess960) ==
    LET is_king == piece_on(b, from) = King
        castle_file ==
            IF is_king /\ ~chess960 /\ FileOf(from) = FileE
               /\ FileOf(to) \in {FileC, FileG}
            THEN FileOf(to)
            ELSE IF is_king /\ chess960 /\ colored_piece_on(b, to, b.stm) = Rook
            THEN (IF FileOf(to) > FileOf(from) THEN FileG ELSE FileC)
            ELSE NoFile
        is_ep == /\ piece_on(b, from) = Pawn
                 /\ RankOf(from) = RelativeTo(R5, b.stm)
                 /\ b.en_passant = FileOf(to)
    IN IF castle_file # NoFile
       THEN MoveNew(from, FromFileRank(castle_file, RankOf(to)), FlagCastle)
       ELSE MoveNew(from, to, IF is_ep THEN FlagEnPassant ELSE FlagNone)

parse_move(b, lan, chess960) ==
    LET cs == Chars(lan)
    IN IF Len(cs) \notin {4, 5} THEN None
       ELSE
       LET from == SquareParse(SubSeq(cs, 1, 2))
           to == SquareParse(SubSeq(cs, 3, 4))
       IN IF ~from.ok \/ ~to.ok THEN None
          ELSE IF Len(cs) = 5
          THEN (IF from_char(cs[5]) = NoPiece THEN None
                ELSE SomeMove(MoveNewPromotion(from.sq, to.sq, from_char(cs[5]))))
          ELSE SomeMove(ParseUnpromoted(b, from.sq, to.sq, chess960))

\* parse_move panics instead of returning: Move::new expects a non-zero move
parse_move_panics(b, lan, chess960) ==
    LET r == parse_move(b, lan, chess960) IN r.ok /\ r.mov = 0

(***************************************************************************)
(* The state machine: a board constructed by read_fen, then advanced by    *)
(* make_move with a move emitted by gen_moves.  prev is the board the last *)
(* move was made on and last that move; input is the text last handed to   *)
(* read_fen and parsed what it returned.                                   *)
(***************************************************************************)
VARIABLES board, prev, last, ply, input, parsed, lan, chess960, parsed_move,
          unfiltered, batch, iter, yielded

vars == <<board, prev, last, ply, input, parsed, lan, chess960, parsed_move,
          unfiltered, batch, iter, yielded>>

\* The board and the history of the moves made on it
gameVars == <<board, prev, last, ply>>

\* A PieceMoves batch, the iterator made of it and the moves it yielded
iterVars == <<batch, iter, yielded>>

\* What a call of parse_move was given and what it returned
parseVars == <<lan, chess960, parsed_move>>

\* The number of moves played on a board
MaxPly == 2

\* No move has been made yet
NoMove == 0

\* Positions of standard chess games
StandardFens ==
    {StartFen,
     "r3k2r/8/8/8/8/8/8/R3K2R w KQkq - 0 1",
     "8/2p5/3p4/KP5r/1R3p1k/8/4P1P1/8 w - - 0 1",
     "r3k2r/Pppp1ppp/1b3nbN/nP6/BBP1P3/q4N2/Pp1P2PP/R2Q1RK1 w kq - 0 1",
     "rnbqkbnr/1pp1pppp/p7/3pP3/8/8/PPPP1PPP/RNBQKBNR w KQkq d6 0 3",
     "4r1k1/8/8/8/8/5n2/R5B1/4K3 w - - 1 1",
     "6k1/8/8/8/8/5n2/R5B1/4K3 w - - 1 1",
     "8/8/8/8/8/4k3/8/R3K3 w - - 99 80"}

\* Positions of Chess960 games: king on G with the rook on H, king and rook
\* swapping squares, king on B with the rook on A, a rook shielding the king
Chess960Fens ==
    {"rnbqn1kr/pppppp1p/6pb/8/8/6PB/PPPPPP1P/RNBQN1KR w KQkq - 2 3",
     "4k3/8/8/8/8/8/8/5KR1 w G - 0 1",
     "1k6/8/8/8/8/8/8/RK6 w A - 0 1",
     "4k3/8/8/8/8/8/8/rRK5 w B - 0 1"}

\* Strings read_fen is given that are no positions of a game
OtherFens ==
    {"4k3/8/8/3P4/8/8/8/4K3 w - e6 0 1",
     "4k3/8/8/8/4P3/8/8/4K3 b - e3 0 1",
     "4k3/8/8/3Pn3/8/8/8/4K3 w - e6 0 1",
     "4k3/8/4N3/3Pp3/8/8/8/4K3 w - e6 0 1",
     "8/8/8/8/4K2R/8/8/k7 w K - 0 1",
     "8/8/8/8/4K1NR/8/8/k7 w K - 0 1",
     "7k/8/8/7p/4K2R/8/8/8 w K - 0 1",
     "8/8/8/8/8/4k3/8/R3K3 w - - 100 80"}

\* No batch is being iterated
NoBatch == PieceMovesNew(FlagNone, King, 0, {})

InitFrom(fens) ==
    /\ batch = NoBatch
    /\ iter = into_iter(batch)
    /\ yielded = <<>>
    /\ \E text \in fens :
        /\ input = text
        /\ parsed = read_fen(text)
        /\ parsed.ok
        /\ board = parsed.board
    /\ prev = board
    /\ last = NoMove
    /\ ply = 0
    /\ lan = ""
    /\ chess960 = FALSE
    /\ parsed_move = None
    /\ unfiltered = OldBoard(board)

\* make_move requires halfmove_clock < 100 of its caller (debug_assert)
MakeMovePre(b) == b.halfmove_clock < 100

MakeMove ==
    /\ ply < MaxPly
    /\ MakeMovePre(board)
    /\ ~gen_moves_panics(board)
    /\ \E mov \in GenMoveSet(board) :
        /\ ~make_move_panics(board, mov)
        /\ board' = make_move(board, mov)
        /\ last' = mov
    /\ prev' = board
    /\ ply' = ply + 1
    /\ UNCHANGED <<input, parsed>>
    /\ UNCHANGED parseVars
    /\ UNCHANGED unfiltered
    /\ UNCHANGED iterVars

Next == MakeMove

\* Play from positions of standard chess
Init == InitFrom(StandardFens)

Spec == Init /\ [][Next]_vars

\* Play from positions of standard chess and of Chess960
Init960 == InitFrom(StandardFens \cup Chess960Fens)

Spec960 == Init960 /\ [][Next]_vars

\* Play from every board read_fen returns
InitFen == InitFrom(StandardFens \cup Chess960Fens \cup OtherFens)

SpecFen == InitFen /\ [][Next]_vars

\* Boards with an en passant file set: a plain capture, the capturing and the
\* captured pawn shielding the king from a rook, the side to move in check by
\* a knight, by a pawn and by a rook, in check by a knight with the capturing
\* pawn pinned along the diagonal of the capture
EnPassantBoardFens ==
    {"4k3/8/8/3pP3/8/8/8/4K3 w - d6 0 1",
     "4kb2/8/8/2Pp4/8/K7/8/1n6 w - d6 0 1",
     "4k3/8/8/K2pP2r/8/8/8/8 w - d6 0 1",
     "4k3/8/8/3pP3/8/5n2/8/4K3 w - d6 0 1",
     "4k3/8/8/3pP3/8/3p4/4K3/8 w - d6 0 1",
     "k7/8/8/8/3Pp3/8/8/R3K3 b - d3 0 1"}

\* Play from boards read_fen returns with an en passant file
InitEnPassantFen == InitFrom(EnPassantBoardFens \cup OtherFens)

SpecEnPassantFen == InitEnPassantFen /\ [][Next]_vars

\* Positions with the side to move in check: by a rook with a bishop and a
\* knight pinned and a rook free to block, by a pawn that has just pushed two
\* squares, by a knight a pinned pawn could capture, by a rook and a knight
\* at once with a castling right held; and one where a knight can uncover a
\* rook and give check itself
CheckFens ==
    {"4k3/8/8/2R5/1b5q/8/3B1N2/r3K3 w - - 0 1",
     "4r1k1/8/8/8/8/5n2/8/4K2R w K - 0 1",
     "4k3/8/8/8/4N3/8/8/4RK2 w - - 0 1",
     "7k/8/8/3pP3/4K3/8/8/8 w - d6 0 1",
     "4k2r/8/8/8/8/6n1/7P/7K w - - 0 1"}

\* A position of a standard game where the queen's rook can step between the
\* king and the king's rook
TwoRookSideFens == {"4k3/8/8/8/8/5R2/8/4K2R w K - 0 1"}

\* Play from positions of standard chess whose boards are then written as FEN
InitRoundTrip == InitFrom(StandardFens \cup TwoRookSideFens)

SpecRoundTrip == InitRoundTrip /\ [][Next]_vars

\* Play from positions of standard chess, those with a check among them
InitCheck == InitFrom(StandardFens \cup CheckFens)

SpecCheck == InitCheck /\ [][Next]_vars

(***************************************************************************)
(* read_fen called on texts that differ from a position in one field: the  *)
(* placement of the eighth rank, the en passant field, or the back rank    *)
(* and the castling letter.                                                *)
(***************************************************************************)
\* The longest rank text and en passant text tried
MaxWord == 3

\* The texts of at most n characters over an alphabet
RECURSIVE Words(_, _)
Words(alphabet, n) ==
    IF n = 0 THEN {""}
    ELSE LET shorter == Words(alphabet, n - 1)
         IN shorter \cup {w \o ch : w \in shorter, ch \in alphabet}

RankTexts == Words({"1", "3", "4", "7", "8", "p"}, MaxWord) \ {""}

PlacementFens == {w \o "/8/8/8/8/8/8/K6k w - - 0 1" : w \in RankTexts}

EnPassantTexts == Words({"-", "a", "e", "3", "6", "4", "x"}, MaxWord) \ {""}

EnPassantFens == {"4k3/8/8/8/8/8/8/4K3 w - " \o e \o " 0 1" : e \in EnPassantTexts}

\* A back rank with one king, rooks and empty squares, as a rank text
RECURSIVE Join(_)
Join(texts) == IF texts = <<>> THEN "" ELSE Head(texts) \o Join(Tail(texts))

BackRanks(king_ch, rook_ch) ==
    {Join(r) : r \in {q \in [1 .. 8 -> {king_ch, rook_ch, "1"}] :
                        Cardinality({i \in 1 .. 8 : q[i] = king_ch}) = 1}}

CastlingFens ==
    {"4k3/8/8/8/8/8/8/" \o r \o " w " \o c \o " - 0 1" :
        r \in BackRanks("K", "R"), c \in {"K", "Q"}}
    \cup {r \o "/8/8/8/8/8/8/4K3 b " \o c \o " - 0 1" :
        r \in BackRanks("k", "r"), c \in {"k", "q"}}

\* First ranks that open with 36 or 37 digits 7: 252 and 259 empty squares
LongRankFens ==
    {"4k3/8/8/8/8/8/8/" \o Join([i \in 1 .. 36 |-> "7"]) \o r \o " w - - 0 1" :
        r \in {"K", "3K", "4K", "7K", "77K"}}

FenInputs == PlacementFens \cup EnPassantFens \cup CastlingFens \cup LongRankFens

\* The number of texts read one after the other
MaxReads == 1

ReadFen ==
    /\ ply < MaxReads
    /\ \E text \in FenInputs :
        /\ input' = text
        /\ parsed' = read_fen(text)
    /\ ply' = ply + 1
    /\ UNCHANGED <<board, prev, last>>
    /\ UNCHANGED parseVars
    /\ UNCHANGED unfiltered
    /\ UNCHANGED iterVars

InitReadFen == InitFrom({StartFen})

SpecReadFen == InitReadFen /\ [][ReadFen]_vars

(***************************************************************************)
(* parse_move called on a move text, and the parsed move made when it is   *)
(* among the legal moves of the board.                                     *)
(***************************************************************************)
FileLetters == Chars("abcdefgh")

RankDigits == Chars("12345678")

SquareText(sq) == FileLetters[FileOf(sq) + 1] \o RankDigits[RankOf(sq) + 1]

\* A back rank holding a king and one rook only, as a rank text
PairRank(king_file, rook_file, king_ch, rook_ch) ==
    Join([i \in 1 .. 8 |-> IF i = king_file + 1 THEN king_ch
                           ELSE IF i = rook_file + 1 THEN rook_ch
                           ELSE "1"])

\* Chess960 positions with the king and the castling rook on every pair of
\* files of the back rank
PairFens ==
    {"4k3/8/8/8/8/8/8/" \o PairRank(k, r, "K", "R") \o " w "
        \o Chars("ABCDEFGH")[r + 1] \o " - 0 1" :
        <<k, r>> \in {q \in (0 .. 7) \X (0 .. 7) : q[1] # q[2]}}
    \cup {PairRank(k, r, "k", "r") \o "/8/8/8/8/8/8/4K3 b "
        \o FileLetters[r + 1] \o " - 0 1" :
        <<k, r>> \in {q \in (0 .. 7) \X (0 .. 7) : q[1] # q[2]}}

\* Chess960 positions with a second rook beyond the castling rook
TwoRookFens ==
    {"4k3/8/8/8/8/8/8/4KR1R w F - 0 1",
     "r1rk4/8/8/8/8/8/8/4K3 b c - 0 1"}

\* Positions with a pawn about to promote
PromotionFens == {"4k3/P7/8/8/8/8/8/4K3 w - - 0 1"}

\* Moves along a back rank
BackRankLans ==
    {SquareText(FromFileRank(f1, rk)) \o SquareText(FromFileRank(f2, rk)) :
        f1 \in 0 .. 7, f2 \in 0 .. 7, rk \in {R1, R8}}

\* A pawn move to the last rank followed by one more character or none
PromotionLans ==
    {"a7a8" \o ch : ch \in {"", "q", "r", "b", "n", "k", "p", "Q", "N", "x", "1", " "}}

\* Other moves, and texts that are no moves
OtherLans ==
    {"e2e4", "e5d6", "g1f3", "a7", "a7a", "a7a8qq", "a9a8", "i7a8", "A7a8",
     "a7a0", "7a8a", "a7-a8", "0000"}

LanInputs == BackRankLans \cup PromotionLans \cup OtherLans

ParseMove ==
    /\ lan = ""
    /\ \E text \in LanInputs, c960 \in BOOLEAN :
        /\ ~parse_move_panics(board, text, c960)
        /\ lan' = text
        /\ chess960' = c960
        /\ parsed_move' = parse_move(board, text, c960)
    /\ UNCHANGED <<board, prev, last, ply, input, parsed>>
    /\ UNCHANGED unfiltered
    /\ UNCHANGED iterVars

\* The caller makes the parsed move when gen_moves lists it
MakeParsedMove ==
    /\ ply < MaxPly
    /\ last = NoMove
    /\ parsed_move.ok
    /\ MakeMovePre(board)
    /\ ~gen_moves_panics(board)
    /\ parsed_move.mov \in GenMoveSet(board)
    /\ ~make_move_panics(board, parsed_move.mov)
    /\ board' = make_move(board, parsed_move.mov)
    /\ last' = parsed_move.mov
    /\ prev' = board
    /\ ply' = ply + 1
    /\ UNCHANGED <<input, parsed>>
    /\ UNCHANGED parseVars
    /\ UNCHANGED unfiltered
    /\ UNCHANGED iterVars

InitParseMove ==
    InitFrom(StandardFens \cup Chess960Fens \cup PairFens \cup TwoRookFens
             \cup PromotionFens)

SpecParseMove == InitParseMove /\ [][ParseMove \/ MakeParsedMove]_vars

(***************************************************************************)
(* The same moves made with make_move of gunnir-board on one board and     *)
(* with make_move of src/board.rs on another.                              *)
(***************************************************************************)
\* The start position and positions reached from it: after 1. e4 a6 2. e5,
\* after 2... d5, and after 1. a3 e5 2. a4 e4
OpeningFens ==
    {StartFen,
     "rnbqkbnr/1ppppppp/p7/4P3/8/8/PPPP1PPP/RNBQKBNR b KQkq - 0 2",
     "rnbqkbnr/1pp1pppp/p7/3pP3/8/8/PPPP1PPP/RNBQKBNR w KQkq d6 0 3",
     "rnbqkbnr/pppp1ppp/8/8/P3p3/8/1PPPPPPP/RNBQKBNR w KQkq - 0 3"}

MakeMoveBoth ==
    /\ ply < MaxPly
    /\ MakeMovePre(board)
    /\ MakeMovePre(unfiltered)
    /\ ~gen_moves_panics(board)
    /\ \E mov \in GenMoveSet(board) :
        /\ ~make_move_panics(board, mov)
        /\ ~old_make_move_panics(unfiltered, mov)
        /\ board' = make_move(board, mov)
        /\ unfiltered' = old_make_move(unfiltered, mov)
        /\ last' = mov
    /\ prev' = board
    /\ ply' = ply + 1
    /\ UNCHANGED <<input, parsed>>
    /\ UNCHANGED parseVars
    /\ UNCHANGED iterVars

InitUnfiltered == InitFrom(OpeningFens)

SpecUnfiltered == InitUnfiltered /\ [][MakeMoveBoth]_vars

(***************************************************************************)
(* A PieceMoves batch turned into an iterator and iterated to its end.     *)
(***************************************************************************)
\* The source squares and the destination squares of the batches iterated
BatchFroms == {0, 12, 52}

BatchDestinations == {0, 5, 20, 60, 63}

Batches ==
    {PieceMovesNew(flag, piece, from, to) :
        flag \in {FlagNone, FlagCastle, FlagEnPassant, FlagPromotion},
        piece \in {Knight, Pawn},
        from \in BatchFroms, to \in SUBSET BatchDestinations}

IntoIter ==
    /\ batch = NoBatch
    /\ \E pm \in Batches \ {NoBatch} :
        /\ batch' = pm
        /\ iter' = into_iter(pm)
    /\ yielded' = <<>>
    /\ UNCHANGED gameVars
    /\ UNCHANGED <<input, parsed>>
    /\ UNCHANGED parseVars
    /\ UNCHANGED unfiltered

\* next() returning a move
IterStep ==
    /\ iter.moves.to # {}
    /\ ~IterNextPanics(iter)
    /\ iter' = IterNext(iter).it
    /\ yielded' = Append(yielded, IterNext(iter).mov)
    /\ UNCHANGED batch
    /\ UNCHANGED gameVars
    /\ UNCHANGED <<input, parsed>>
    /\ UNCHANGED parseVars
    /\ UNCHANGED unfiltered

InitIter == InitFrom({StartFen})

SpecIter == InitIter /\ [][IntoIter \/ IterStep]_vars

(***************************************************************************)
(* The rules of chess, stated on a plain board (a function from squares to *)
(* 0 for an empty square, 1 + 6 * color + piece type otherwise) without    *)
(* bitboards, pins or check masks: the reference the generator is compared *)
(* with.                                                                   *)
(***************************************************************************)
RefCode(color, pt) == 1 + 6 * color + pt

RefColor(code) == (code - 1) \div 6

RefType(code) == (code - 1) % 6

RefPos(b) ==
    [sq \in Squares |->
        IF sq \in b.occupied[White] THEN RefCode(White, b.mailbox[sq])
        ELSE IF sq \in b.occupied[Black] THEN RefCode(Black, b.mailbox[sq])
        ELSE 0]

RefKnightSteps == {<<1, 2>>, <<2, 1>>, <<2, -1>>, <<1, -2>>,
                   <<-1, -2>>, <<-2, -1>>, <<-2, 1>>, <<-1, 2>>}

RefOrthSteps == {<<1, 0>>, <<0, 1>>, <<-1, 0>>, <<0, -1>>}

RefDiagSteps == {<<1, 1>>, <<-1, 1>>, <<-1, -1>>, <<1, -1>>}

\* The squares one step of the given kinds away from sq
RefSteps(sq, steps) ==
    {FromFileRank(FileOf(sq) + d[1], RankOf(sq) + d[2]) :
        d \in {e \in steps : OnBoard(FileOf(sq) + e[1], RankOf(sq) + e[2])}}

RefKnightTo == [sq \in Squares |-> RefSteps(sq, RefKnightSteps)]

RefKingTo == [sq \in Squares |-> RefSteps(sq, RefOrthSteps \cup RefDiagSteps)]

\* The squares a pawn of the color captures to from sq
RefPawnTo ==
    [c \in Colors |-> [sq \in Squares |->
        RefSteps(sq, {<<-1, Signum(c)>>, <<1, Signum(c)>>})]]

\* The squares of the board in direction d from sq, nearest first
RECURSIVE RefWalk(_, _)
RefWalk(sq, d) ==
    IF ~OnBoard(FileOf(sq) + d[1], RankOf(sq) + d[2]) THEN <<>>
    ELSE LET t == FromFileRank(FileOf(sq) + d[1], RankOf(sq) + d[2])
         IN <<t>> \o RefWalk(t, d)

RefOrthWalks == [sq \in Squares |-> {RefWalk(sq, d) : d \in RefOrthSteps} \ {<<>>}]

RefDiagWalks == [sq \in Squares |-> {RefWalk(sq, d) : d \in RefDiagSteps} \ {<<>>}]

\* The squares a slider reaches along a walk: the empty squares and the first
\* occupied one
RefReach(pos, walk) ==
    {walk[i] : i \in {j \in DOMAIN walk : \A k \in 1 .. (j - 1) : pos[walk[k]] = 0}}

RefSlide(pos, walks) == UNION {RefReach(pos, w) : w \in walks}

\* The first occupied square along a walk, if any
RefFirst(pos, walk) ==
    {walk[i] : i \in {j \in DOMAIN walk :
        pos[walk[j]] # 0 /\ \A k \in 1 .. (j - 1) : pos[walk[k]] = 0}}

\* Is sq attacked by a piece of color by?
RefAttacked(pos, sq, by) ==
    \/ \E t \in RefPawnTo[Invert(by)][sq] : pos[t] = RefCode(by, Pawn)
    \/ \E t \in RefKnightTo[sq] : pos[t] = RefCode(by, Knight)
    \/ \E t \in RefKingTo[sq] : pos[t] = RefCode(by, King)
    \/ \E w \in RefOrthWalks[sq] : \E t \in RefFirst(pos, w) :
            pos[t] \in {RefCode(by, Rook), RefCode(by, Queen)}
    \/ \E w \in RefDiagWalks[sq] : \E t \in RefFirst(pos, w) :
            pos[t] \in {RefCode(by, Bishop), RefCode(by, Queen)}

RefKing(pos, color) == CHOOSE sq \in Squares : pos[sq] = RefCode(color, King)

RefInCheck(pos, color) == RefAttacked(pos, RefKing(pos, color), Invert(color))

RefOwn(pos, sq, color) == pos[sq] # 0 /\ RefColor(pos[sq]) = color

\* The squares from a to b on one rank, both included
RefSpan(a, b) == {sq \in Squares : RankOf(sq) = RankOf(a)
                    /\ ((a <= sq /\ sq <= b) \/ (b <= sq /\ sq <= a))}

\* The castling rook's file of the side (TRUE = short) or NoFile
RefRookFile(b, short) ==
    IF short THEN b.castles[b.stm].short ELSE b.castles[b.stm].long

\* The position after a move of the side to move
RefApply(b, pos, mov) ==
    LET from == MoveFrom(mov)
        to == MoveTo(mov)
        flag == MoveFlagOf(mov)
    IN CASE flag = FlagNone -> [pos EXCEPT ![from] = 0, ![to] = pos[from]]
         [] flag = FlagPromotion ->
              [pos EXCEPT ![from] = 0,
                          ![to] = RefCode(b.stm, PromotesToUnchecked(mov))]
         [] flag = FlagEnPassant ->
              [pos EXCEPT ![from] = 0, ![to] = pos[from],
                          ![FromFileRank(FileOf(to), RankOf(from))] = 0]
         [] flag = FlagCastle ->
              LET short == FileOf(to) = FileG
                  rook == FromFileRank(RefRookFile(b, short), RankOf(from))
                  rook_dst == FromFileRank(IF short THEN FileF ELSE FileD, RankOf(from))
              IN [[pos EXCEPT ![from] = 0, ![rook] = 0]
                      EXCEPT ![to] = RefCode(b.stm, King),
                             ![rook_dst] = RefCode(b.stm, Rook)]

\* The moves of the pawn on sq by the movement rules
RefPawnMoves(b, pos, sq) ==
    LET c == b.stm
        dir == Signum(c)
        one == sq + 8 * dir
        two == sq + 16 * dir
        ahead == RankOf(sq) + dir \in Ranks
        pushes == IF ~ahead \/ pos[one] # 0 THEN {}
                  ELSE IF RankOf(sq) = RelativeTo(R2, c) /\ pos[two] = 0
                       THEN {one, two} ELSE {one}
        takes == {t \in RefPawnTo[c][sq] :
                    RefOwn(pos, t, Invert(c))}
        plain == pushes \cup takes
        ep == IF b.en_passant = NoFile THEN {}
              ELSE {t \in RefPawnTo[c][sq] :
                      /\ RankOf(sq) = RelativeTo(R5, c)
                      /\ FileOf(t) = b.en_passant
                      /\ pos[t] = 0
                      /\ pos[FromFileRank(FileOf(t), RankOf(sq))]
                            = RefCode(Invert(c), Pawn)}
    IN {MoveNew(sq, t, FlagNone) :
            t \in {u \in plain : RankOf(u) # RelativeTo(R8, c)}}
       \cup {MoveNewPromotion(sq, t, pt) :
            t \in {u \in plain : RankOf(u) = RelativeTo(R8, c)},
            pt \in {Knight, Bishop, Rook, Queen}}
       \cup {MoveNew(sq, t, FlagEnPassant) : t \in ep}

\* Castling: the right is held, every square from the king to its destination
\* and from the rook to its destination is free of other pieces, and the king
\* neither stands on, crosses nor lands on an attacked square
RefCastles(b, pos, sq) ==
    LET c == b.stm
        Can(short) ==
            LET rf == RefRookFile(b, short)
                rook == FromFileRank(rf, RankOf(sq))
                king_dst == FromFileRank(IF short THEN FileG ELSE FileC, RankOf(sq))
                rook_dst == FromFileRank(IF short THEN FileF ELSE FileD, RankOf(sq))
            IN /\ rf # NoFile
               /\ \A t \in (RefSpan(sq, king_dst) \cup RefSpan(rook, rook_dst))
                            \ {sq, rook} : pos[t] = 0
               /\ \A t \in RefSpan(sq, king_dst) : ~RefAttacked(pos, t, Invert(c))
    IN {MoveNew(sq, FromFileRank(FileG, RankOf(sq)), FlagCastle) : x \in {y \in {1} : Can(TRUE)}}
       \cup {MoveNew(sq, FromFileRank(FileC, RankOf(sq)), FlagCastle) :
                x \in {y \in {1} : Can(FALSE)}}

\* Every move that obeys the movement rules of the piece on sq
RefPieceMoves(b, pos, sq) ==
    LET c == b.stm
        pt == RefType(pos[sq])
        Free(ts) == {MoveNew(sq, t, FlagNone) : t \in {u \in ts : ~RefOwn(pos, u, c)}}
    IN CASE pt = Pawn -> RefPawnMoves(b, pos, sq)
         [] pt = Knight -> Free(RefKnightTo[sq])
         [] pt = Bishop -> Free(RefSlide(pos, RefDiagWalks[sq]))
         [] pt = Rook -> Free(RefSlide(pos, RefOrthWalks[sq]))
         [] pt = Queen -> Free(RefSlide(pos, RefOrthWalks[sq] \cup RefDiagWalks[sq]))
         [] pt = King -> Free(RefKingTo[sq])
                         \cup RefCastles(b, pos, sq)

RefPseudoLegal(b) ==
    LET pos == RefPos(b)
    IN UNION {RefPieceMoves(b, pos, sq) : sq \in {t \in Squares : RefOwn(pos, t, b.stm)}}

\* The pseudo-legal moves that do not leave the mover's king attacked
RefLegal(b) ==
    LET pos == RefPos(b)
    IN {mov \in RefPseudoLegal(b) : ~RefInCheck(RefApply(b, pos, mov), b.stm)}

(***************************************************************************)
(* Representation invariants of the Board                                  *)
(***************************************************************************)
\* occupied disjoint, their union the union of pieces, pieces pairwise
\* disjoint, mailbox the inverse of pieces
Consistent(b) ==
    /\ b.occupied[White] \cap b.occupied[Black] = {}
    /\ occupied(b) = UNION {b.pieces[pt] : pt \in PieceTypes}
    /\ \A p, q \in PieceTypes : p # q => b.pieces[p] \cap b.pieces[q] = {}
    /\ \A sq \in Squares : \A pt \in PieceTypes :
            b.mailbox[sq] = pt <=> sq \in b.pieces[pt]

\* The piece the last move moved, read off the board it was made on
Moved == prev.mailbox[MoveFrom(last)]

(***************************************************************************)
(* The hash of a board computed from scratch, as read_fen accumulates it:  *)
(* every piece of either colour, the side to move, the en passant file and *)
(* the four castling rights.                                               *)
(***************************************************************************)
RECURSIVE XorAll(_, _)
XorAll(h, ks) == IF ks = <<>> THEN h ELSE XorAll(XorKey(h, Head(ks)), Tail(ks))

CastleKeys(b, c) ==
    (IF b.castles[c].short # NoFile THEN <<ZCastles(b.castles[c].short, c)>> ELSE <<>>)
    \o (IF b.castles[c].long # NoFile THEN <<ZCastles(b.castles[c].long, c)>> ELSE <<>>)

FreshHash(b) ==
    XorAll(UNION {{ZPiece(sq, pt, c) : sq \in colored_pieces(b, pt, c)} :
                    pt \in PieceTypes, c \in Colors},
           (IF b.stm = Black THEN <<ZBlackToMove>> ELSE <<>>)
           \o (IF b.en_passant # NoFile THEN <<ZEnPassant(b.en_passant)>> ELSE <<>>)
           \o CastleKeys(b, White) \o CastleKeys(b, Black))

\* The en passant captures gen_moves emits
EnPassantMoves(b) == {m \in GenMoveSet(b) : MoveFlagOf(m) = FlagEnPassant}

\* The square an en passant capture would land on is empty, or none is set
EnPassantSquareEmpty(b) ==
    b.en_passant # NoFile =>
        FromFileRank(b.en_passant, RelativeTo(R6, b.stm)) \notin occupied(b)

\* The square the rook of a Castle move starts on
CastlingRookOrigin(b, mov) ==
    FromFileRank(IF FileOf(MoveTo(mov)) = FileG THEN b.castles[b.stm].short
                 ELSE b.castles[b.stm].long, RankOf(MoveTo(mov)))

(***************************************************************************)
(* The claims                                                              *)
(***************************************************************************)

\* C1: in every position reached from the start position by emitted moves,
\* the position make_move produces from an emitted move does not leave the
\* mover's king attacked by any opposing piece.
KingSafeAfterMove ==
    last # NoMove => ~RefInCheck(RefPos(board), Invert(board.stm))

\* A move was made by a side that was in check
KingSafeAfterMoveWitness == last # NoMove /\ prev.checkers # {}

\* C2: gen_moves emits exactly the moves of the reference generator (the
\* pseudo-legal moves, castling, en passant and the four promotions included,
\* that do not leave the mover's king attacked), each exactly once.
GenMovesComplete ==
    LET ms == GenMoveSeq(board)
    IN /\ {ms[i] : i \in DOMAIN ms} = RefLegal(board)
       /\ \A i, j \in DOMAIN ms : ms[i] = ms[j] => i = j

\* Some pseudo-legal move is withheld because it would leave the king attacked
GenMovesCompleteWitness ==
    /\ RefLegal(board) # RefPseudoLegal(board)
    /\ GenMoveSet(board) # {}

\* C3: after any sequence of generated moves from the start position the two
\* occupied bitboards are disjoint, their union is the union of the pieces
\* bitboards, the pieces bitboards are pairwise disjoint, and the mailbox
\* holds a piece type on a square iff that type's bitboard contains it.
PiecesOccupiedMailboxAgree == Consistent(board)

\* An en passant capture, which changes three squares, was made
PiecesOccupiedMailboxAgreeWitness ==
    last # NoMove /\ MoveFlagOf(last) = FlagEnPassant

\* C4: after any sequence of make_move calls on a board produced by read_fen
\* the incrementally maintained hash equals the hash computed from scratch
\* for the current state.
HashIsFresh == board.hash = FreshHash(board)

\* C5: for every board read_fen returns and every move gen_moves emits on
\* it, the board after make_move has disjoint occupied bitboards whose union
\* is the union of the pieces bitboards, and a mailbox that agrees with the
\* pieces bitboards on every square.
ReadFenBoardStaysConsistent ==
    last # NoMove =>
        /\ board.occupied[White] \cap board.occupied[Black] = {}
        /\ occupied(board) = UNION {board.pieces[pt] : pt \in PieceTypes}
        /\ \A sq \in Squares : \A pt \in PieceTypes :
                board.mailbox[sq] = pt <=> sq \in board.pieces[pt]

PerftStartPos ==
    (ply = 0 /\ board = start_pos) =>
        /\ perft(board, 1) = 20
        /\ perft(board, 2) = 400
        /\ perft(board, 3) = 8902

\* The start position, with its batches counted by len
PerftStartPosWitness ==
    ply = 0 /\ board = start_pos /\ SumLen(gen_moves(board)) = Len(GenMoveSeq(board))

\* C8: after read_fen and after make_move, if en_passant is Some(f) then
\* gen_moves emits an en passant capture onto file f.
EnPassantFileHasLegalCapture ==
    board.en_passant # NoFile =>
        \E m \in EnPassantMoves(board) : FileOf(MoveTo(m)) = board.en_passant

\* C9 as stated: halfmove_clock < 100 after every successful read_fen and
\* after every make_move.
HalfmoveClockBelow100 == board.halfmove_clock < 100

\* C9 amended: halfmove_clock < 100 after every successful read_fen; after a
\* make_move on a board whose halfmove_clock is below 100 it is at most 100,
\* and it is 100 only when it was 99 before the move.
HalfmoveClockAtMost100 ==
    /\ last = NoMove => board.halfmove_clock < 100
    /\ last # NoMove =>
        /\ board.halfmove_clock <= 100
        /\ board.halfmove_clock = 100 => prev.halfmove_clock = 99

\* A move that is neither a pawn move nor a capture was made at 99
HalfmoveClockAtMost100Witness ==
    last # NoMove /\ board.halfmove_clock = 100

\* C10: after read_fen and after make_move, for each colour a short
\* castling right Some(f) means a rook of that colour on (f, back rank), the
\* king on that back rank and f greater than the king's file; a long right
\* the same with f less than the king's file.
CastlingRightsOnBackRank ==
    \A c \in Colors :
        LET back == RelativeTo(R1, c)
            k == king(board, c)
            Holds(f) == /\ FromFileRank(f, back) \in colored_pieces(board, Rook, c)
                        /\ RankOf(k) = back
        IN /\ board.castles[c].short # NoFile =>
                Holds(board.castles[c].short) /\ board.castles[c].short > FileOf(k)
           /\ board.castles[c].long # NoFile =>
                Holds(board.castles[c].long) /\ board.castles[c].long < FileOf(k)

(***************************************************************************)
(* A FEN text read field by field, as the FEN notation defines it          *)
(***************************************************************************)
RefFields(text) == Split(Trim(Chars(text)), " ")

RefDigits == "0123456789"

\* The number of squares a rank text describes
RECURSIVE RefRankSquares(_)
RefRankSquares(cs) ==
    IF cs = <<>> THEN 0
    ELSE (IF IsIn(Head(cs), RefDigits) THEN IndexIn(Head(cs), RefDigits) ELSE 1)
         + RefRankSquares(Tail(cs))

\* The squares of a rank text from file A on: a piece letter, or "1" if empty
RECURSIVE RefExpandRank(_)
RefExpandRank(cs) ==
    IF cs = <<>> THEN <<>>
    ELSE (IF IsIn(Head(cs), RefDigits)
          THEN [i \in 1 .. IndexIn(Head(cs), RefDigits) |-> "1"]
          ELSE <<Head(cs)>>) \o RefExpandRank(Tail(cs))

RefPlacementRanks(text) == Split(RefFields(text)[1], "/")

\* The back rank of a colour, ranks being listed from the eighth down
RefBackRank(text, color) ==
    RefExpandRank(RefPlacementRanks(text)[IF color = White THEN 8 ELSE 1])

RefLetter(color, upper, lower) == IF color = White THEN upper ELSE lower

\* The files of the rooks of a colour on its back rank on one side of its king
RefRooksBeside(text, color, right) ==
    LET rank == RefBackRank(text, color)
        kings == {f \in Files : rank[f + 1] = RefLetter(color, "K", "k")}
    IN {f \in Files : /\ rank[f + 1] = RefLetter(color, "R", "r")
                      /\ \E k \in kings : IF right THEN f > k ELSE f < k}

RefMax(set) == CHOOSE x \in set : \A y \in set : y <= x

RefMin(set) == CHOOSE x \in set : \A y \in set : x <= y

RefHasLetter(cs, ch) == \E i \in DOMAIN cs : cs[i] = ch

RefWellFormedEnPassant(cs) ==
    \/ cs = <<"-">>
    \/ Len(cs) = 2 /\ IsIn(cs[1], "abcdefgh") /\ cs[2] \in {"3", "6"}

\* C11: read_fen resolves K (k) to the file of the rook closest to the H
\* file among the colour's back rank rooks to the right of its king, and Q
\* (q) to the rook closest to the A file among those to the left, whenever
\* there is at least one rook on that side.
CastlingLetterNamesOutermostRook ==
    Len(RefFields(input)) = 6 =>
        \A c \in Colors :
            LET field == RefFields(input)[3]
                right == RefRooksBeside(input, c, TRUE)
                left == RefRooksBeside(input, c, FALSE)
            IN /\ (RefHasLetter(field, RefLetter(c, "K", "k")) /\ right # {}) =>
                    parsed.ok /\ parsed.board.castles[c].short = RefMax(right)
               /\ (RefHasLetter(field, RefLetter(c, "Q", "q")) /\ left # {}) =>
                    parsed.ok /\ parsed.board.castles[c].long = RefMin(left)

\* C12: read_fen returns None whenever some rank of the placement field
\* does not describe exactly 8 squares.
RejectsRankNotOf8Squares ==
    (\E i \in DOMAIN RefPlacementRanks(input) :
        RefRankSquares(RefPlacementRanks(input)[i]) # 8) => ~parsed.ok

\* C13: read_fen returns None whenever the en passant field is neither "-"
\* nor a file letter a-h followed by the digit 3 or 6.
RejectsMalformedEnPassant ==
    (Len(RefFields(input)) = 6 /\ ~RefWellFormedEnPassant(RefFields(input)[4]))
        => ~parsed.ok


\* The move texts of the grammar [a-h][1-8][a-h][1-8][nbrq]?
RefLanGrammar(text) ==
    LET cs == Chars(text)
    IN /\ Len(cs) \in {4, 5}
       /\ \A i \in {1, 3} : \E ch \in {"a", "b", "c", "d", "e", "f", "g", "h"} : cs[i] = ch
       /\ \A i \in {2, 4} : \E ch \in {"1", "2", "3", "4", "5", "6", "7", "8"} : cs[i] = ch
       /\ Len(cs) = 5 => \E ch \in {"n", "b", "r", "q"} : cs[5] = ch

RefNamedPiece(ch) ==
    CASE ch = "n" -> Knight
      [] ch = "b" -> Bishop
      [] ch = "r" -> Rook
      [] ch = "q" -> Queen
      [] OTHER -> NoPiece

\* C14: parse_move returns nothing for a text outside the grammar
\* [a-h][1-8][a-h][1-8][nbrq]?, and a text of five characters it accepts
\* gives a Promotion move to the piece the fifth character names.
ParseMoveFollowsGrammar ==
    lan # "" =>
        /\ ~RefLanGrammar(lan) => ~parsed_move.ok
        /\ (parsed_move.ok /\ Len(lan) = 5) =>
              /\ MoveFlagOf(parsed_move.mov) = FlagPromotion
              /\ PromotesToUnchecked(parsed_move.mov) = RefNamedPiece(Chars(lan)[5])

\* The squares a move text names, read back through SquareText
LanFrom == CHOOSE sq \in Squares : SquareText(sq) = SubSeq(lan, 1, 2)

LanTo == CHOOSE sq \in Squares : SquareText(sq) = SubSeq(lan, 3, 4)

\* parse_move was given, in Chess960 mode, a king move onto a rook of the
\* side to move
KingOntoOwnRook ==
    /\ lan \in BackRankLans
    /\ chess960
    /\ RefPos(prev)[LanFrom] = RefCode(prev.stm, King)
    /\ RefPos(prev)[LanTo] = RefCode(prev.stm, Rook)

\* C15: in Chess960 mode a king move onto an own rook parses to a Castle move
\* of the king to file G when the rook's file is greater than the king's and
\* to file C otherwise; once made, the king stands on G or C and a rook on F
\* or D of that rank, pieces, occupied and mailbox agree, and the mover has
\* no castling right left.
Chess960CastleLandsOnGOrC ==
    KingOntoOwnRook =>
        LET mover == prev.stm
            is_short == FileOf(LanTo) > FileOf(LanFrom)
            king_to == FromFileRank(IF is_short THEN FileG ELSE FileC, RankOf(LanFrom))
            rook_to == FromFileRank(IF is_short THEN FileF ELSE FileD, RankOf(LanFrom))
        IN /\ parsed_move.ok
           /\ MoveFlagOf(parsed_move.mov) = FlagCastle
           /\ MoveFrom(parsed_move.mov) = LanFrom
           /\ MoveTo(parsed_move.mov) = king_to
           /\ last # NoMove =>
                /\ last = parsed_move.mov
                /\ RefPos(board)[king_to] = RefCode(mover, King)
                /\ RefPos(board)[rook_to] = RefCode(mover, Rook)
                /\ king_to \in board.pieces[King] \cap board.occupied[mover]
                /\ rook_to \in board.pieces[Rook] \cap board.occupied[mover]
                /\ Cardinality(board.pieces[King]) = Cardinality(prev.pieces[King])
                /\ Cardinality(board.pieces[Rook]) = Cardinality(prev.pieces[Rook])
                /\ Consistent(board)
                /\ board.castles[mover].short = NoFile
                /\ board.castles[mover].long = NoFile

\* The king on B1 castled with the rook on A1: the king is on C1, the rook on D1
Chess960CastleLandsOnGOrCWitness ==
    /\ KingOntoOwnRook
    /\ last # NoMove
    /\ lan = "b1a1"
    /\ RefPos(board)[2] = RefCode(White, King)
    /\ RefPos(board)[3] = RefCode(White, Rook)

\* C16: after the same legal moves from the start position, the board kept by
\* the filtered make_move and the board kept by the unfiltered make_move give
\* the same set of moves from gen_moves.
FilterKeepsLegalMoves == GenMoveSet(board) = GenMoveSet(unfiltered)

\* A double push was made that the filter did not record, and one that both
\* boards recorded
FilterKeepsLegalMovesWitness ==
    /\ last # NoMove
    /\ Moved = Pawn
    /\ Abs(RankOf(MoveTo(last)) - RankOf(MoveFrom(last))) = 2
    /\ unfiltered.en_passant = FileOf(MoveTo(last))
    /\ board.en_passant = NoFile

\* The length of a batch and the n-th smallest of its destinations
RefLen(pm) == Cardinality(pm.to) * (IF pm.move_flag = FlagPromotion THEN 4 ELSE 1)

RefNth(squares, n) ==
    CHOOSE sq \in squares : Cardinality({other \in squares : other < sq}) = n - 1

RefPromotionOrder == <<Queen, Rook, Bishop, Knight>>

\* The batch was iterated up to here as the claim describes
RefIteratedInOrder ==
    /\ ~IterNextPanics(iter)
    /\ PieceMovesLen(batch) = RefLen(batch)
    /\ Len(yielded) <= RefLen(batch)
    /\ size_hint(iter) = RefLen(batch) - Len(yielded)
    /\ iter.moves.to = {} => Len(yielded) = RefLen(batch)
    /\ \A i, j \in 1 .. Len(yielded) : i # j => yielded[i] # yielded[j]
    /\ \A i \in 1 .. Len(yielded) :
        /\ MoveFrom(yielded[i]) = batch.from
        /\ MoveFlagOf(yielded[i]) = batch.move_flag
        /\ IF batch.move_flag = FlagPromotion
           THEN /\ MoveTo(yielded[i]) = RefNth(batch.to, ((i - 1) \div 4) + 1)
                /\ PromotesToUnchecked(yielded[i]) = RefPromotionOrder[((i - 1) % 4) + 1]
           ELSE MoveTo(yielded[i]) = RefNth(batch.to, i)

\* C17 as stated: iterating any batch yields len() = popcount(to) * (4 if
\* Promotion else 1) moves, pairwise distinct, destinations lowest square
\* first, each with the batch's source and flag, promotions in the order
\* queen, rook, bishop, knight, and size_hint is the number still to come.
IterationYieldsLen == RefIteratedInOrder

\* The batch whose first move from A1 to A1 with flag None has no encoding
NullMoveBatch ==
    /\ batch.move_flag = FlagNone
    /\ batch.from = 0
    /\ 0 \in batch.to

\* C17: the same for every batch but one holding the move from A1 to A1 with
\* flag None.
IterationYieldsLenButNullMove == ~NullMoveBatch => RefIteratedInOrder

\* A Promotion batch of two destinations was iterated to its end
IterationYieldsLenWitness ==
    /\ batch.move_flag = FlagPromotion
    /\ Cardinality(batch.to) = 2
    /\ iter.moves.to = {}
    /\ Len(yielded) = 8

\* The last move took a piece of the opponent
RefCaptured ==
    \/ MoveFlagOf(last) = FlagEnPassant
    \/ /\ RefPos(prev)[MoveTo(last)] # 0
       /\ RefColor(RefPos(prev)[MoveTo(last)]) # prev.stm

\* C18: make_move sets halfmove_clock to 0 exactly when the moved piece is a
\* pawn or the move captures a piece of the opponent, and adds 1 to it for
\* every other move, every Castle move included.
HalfmoveClockCountsQuietMoves ==
    last # NoMove =>
        IF Moved = Pawn \/ RefCaptured
        THEN board.halfmove_clock = 0
        ELSE board.halfmove_clock = prev.halfmove_clock + 1

\* The last move pushed a pawn two squares along its file
RefDoublePush ==
    /\ Moved = Pawn
    /\ FileOf(MoveTo(last)) = FileOf(MoveFrom(last))
    /\ Abs(RankOf(MoveTo(last)) - RankOf(MoveFrom(last))) = 2

\* A pawn of the side to move stands beside the pawn just pushed
RefPawnBeside ==
    \E sq \in Squares :
        /\ RankOf(sq) = RankOf(MoveTo(last))
        /\ Abs(FileOf(sq) - FileOf(MoveTo(last))) = 1
        /\ RefPos(board)[sq] = RefCode(board.stm, Pawn)

\* C19: after make_move, en_passant is file f iff the move was a two-square
\* pawn push on file f and a pawn of the new side to move stands on the same
\* rank on an adjacent file; after every other move en_passant is not set.
EnPassantSetIffPushBesidePawn ==
    last # NoMove =>
        IF RefDoublePush /\ RefPawnBeside
        THEN board.en_passant = FileOf(MoveTo(last))
        ELSE board.en_passant = NoFile

\* A double push beside an opposing pawn was made
EnPassantSetIffPushBesidePawnWitness ==
    /\ last # NoMove
    /\ RefDoublePush
    /\ RefPawnBeside
    /\ board.en_passant = FileOf(MoveTo(last))

\* C20: on every board read_fen returns with an en passant file set, gen_moves
\* emits an EnPassant move only if the position after it does not have the
\* mover's king attacked.
EnPassantKeepsKingSafe ==
    (ply = 0 /\ board.en_passant # NoFile) =>
        \A m \in EnPassantMoves(board) :
            ~RefInCheck(RefApply(board, RefPos(board), m), board.stm)

\* The squares from the king up to a piece giving check, that piece included:
\* along a rank, file or diagonal, or the checker's square alone
RefSegment(king_sq, checker) ==
    {checker} \cup UNION {{w[i] : i \in 1 .. j} :
        <<w, j>> \in {q \in (RefOrthWalks[king_sq] \cup RefDiagWalks[king_sq])
                              \X (1 .. 7) : q[2] \in DOMAIN q[1] /\ q[1][q[2]] = checker}}

\* The batches gen_moves emits for pieces other than the king
NonKingBatches(b) ==
    LET batches == gen_moves(b)
    IN {batches[i] : i \in {j \in DOMAIN batches : batches[j].piece # King}}

\* The only piece giving check
RefChecker(b) == CHOOSE sq \in b.checkers : TRUE

CheckedPinnedPiecesStay ==
    Cardinality(board.checkers) = 1 =>
        \A pm \in NonKingBatches(board) : pm.from \notin board.pinned

\* C23: with two or more checkers every batch gen_moves emits is a batch of
\* the king with flag None, and with any checker no Castle batch is emitted.
DoubleCheckKingMovesOnly ==
    LET batches == gen_moves(board)
    IN /\ Cardinality(board.checkers) >= 2 =>
            \A i \in DOMAIN batches :
                batches[i].piece = King /\ batches[i].move_flag = FlagNone
       /\ board.checkers # {} =>
            \A i \in DOMAIN batches : batches[i].move_flag # FlagCastle

\* In double check, with a castling right and a piece that could capture one
\* of the checkers, the king has a move
DoubleCheckKingMovesOnlyWitness ==
    /\ Cardinality(board.checkers) >= 2
    /\ gen_moves(board) # <<>>
    /\ \E sq \in board.checkers : RefAttacked(RefPos(board), sq, board.stm)

\* A Castle batch of gen_moves holds a destination on the file
CastleEmitted(b, file) ==
    LET batches == gen_moves(b)
    IN \E i \in DOMAIN batches :
        /\ batches[i].move_flag = FlagCastle
        /\ \E sq \in batches[i].to : FileOf(sq) = file

\* The conditions of castling to the side (TRUE = short), the rook taken on
\* the back rank of the side to move
RefCastleAllowed(b, short) ==
    LET pos == RefPos(b)
        back == RelativeTo(R1, b.stm)
        king_sq == RefKing(pos, b.stm)
        rook == FromFileRank(RefRookFile(b, short) % 8, back)
        king_dst == FromFileRank(IF short THEN FileG ELSE FileC, back)
        rook_dst == FromFileRank(IF short THEN FileF ELSE FileD, back)
        crossed == (RefSpan(king_sq, king_dst) \ {king_sq}) \cup {king_dst}
        bare == [pos EXCEPT ![king_sq] = 0, ![rook] = 0]
    IN /\ RefRookFile(b, short) # NoFile
       /\ rook \notin b.pinned
       /\ \A sq \in (crossed \cup RefSpan(king_sq, rook) \cup {rook_dst}) \ {king_sq, rook} :
            pos[sq] = 0
       /\ \A sq \in crossed : ~RefAttacked(bare, sq, Invert(b.stm))

\* C24: with no checkers a Castle move to G (to C) is emitted iff the short
\* (long) right is held, the rook on the back rank is not pinned, no other
\* piece stands between king and king destination, on the king destination,
\* between king and rook or on the rook destination, and no square the king
\* crosses or lands on is attacked once king and rook are lifted.
CastleEmittedIffAllowed ==
    board.checkers = {} =>
        /\ CastleEmitted(board, FileG) <=> RefCastleAllowed(board, TRUE)
        /\ CastleEmitted(board, FileC) <=> RefCastleAllowed(board, FALSE)

\* The squares the Chess960 rule wants free: from the king to its destination
\* and from the rook to its destination, the two pieces' own squares excepted
RefCastlePath(king_sq, rook, short) ==
    LET king_dst == FromFileRank(IF short THEN FileG ELSE FileC, RankOf(king_sq))
        rook_dst == FromFileRank(IF short THEN FileF ELSE FileD, RankOf(king_sq))
    IN (RefSpan(king_sq, king_dst) \cup RefSpan(rook, rook_dst)) \ {king_sq, rook}

\* The squares can_castle wants free, as add_king_moves calls it
CastleMustBeEmpty(king_sq, rook, short) ==
    must_be_empty(king_sq, rook,
                  FromFileRank(IF short THEN FileG ELSE FileC, RankOf(king_sq)),
                  FromFileRank(IF short THEN FileF ELSE FileD, RankOf(king_sq)))
        \ {king_sq, rook}

\* C25: for every right the side to move holds, with the king and the
\* castling rook wherever they stand on the back rank, the squares can_castle
\* requires to be empty, king and rook squares removed, are the squares from
\* the king to its destination and from the rook to its destination, king
\* and rook squares removed.
MustBeEmptyIsCastlePath ==
    \A short \in BOOLEAN :
        LET king_sq == king(board, board.stm)
            rook == FromFileRank(RefRookFile(board, short) % 8, RankOf(king_sq))
        IN RefRookFile(board, short) # NoFile =>
            CastleMustBeEmpty(king_sq, rook, short) = RefCastlePath(king_sq, rook, short)

\* The long right is held with the king on C and the rook on A or B: the
\* king stays and the rook crosses it
MustBeEmptyIsCastlePathWitness ==
    /\ board.castles[board.stm].long \in {FileA, FileA + 1}
    /\ FileOf(king(board, board.stm)) = FileC
    /\ CastleEmitted(board, FileC)

\* The pawns, knights and sliders of color by that attack sq
RefAttackers(pos, sq, by) ==
    {t \in RefPawnTo[Invert(by)][sq] : pos[t] = RefCode(by, Pawn)}
    \cup {t \in RefKnightTo[sq] : pos[t] = RefCode(by, Knight)}
    \cup {t \in UNION {RefFirst(pos, w) : w \in RefOrthWalks[sq]} :
            pos[t] \in {RefCode(by, Rook), RefCode(by, Queen)}}
    \cup {t \in UNION {RefFirst(pos, w) : w \in RefDiagWalks[sq]} :
            pos[t] \in {RefCode(by, Bishop), RefCode(by, Queen)}}

\* C26: after read_fen and after make_move checkers is the set of the pawns,
\* knights and unobstructed sliders of the side not to move that attack the
\* king of the side to move, lies within occupied[not stm] and holds at most
\* two pieces.
CheckersAreAttackers ==
    /\ board.checkers
        = RefAttackers(RefPos(board), RefKing(RefPos(board), board.stm), Invert(board.stm))
    /\ board.checkers \subseteq board.occupied[Invert(board.stm)]
    /\ Cardinality(board.checkers) <= 2

\* A move has given check with two pieces at once
CheckersAreAttackersWitness ==
    /\ last # NoMove
    /\ Cardinality(board.checkers) = 2

\* The batches gen_moves emits on b, as a set
GenBatches(b) == LET batches == gen_moves(b) IN {batches[i] : i \in DOMAIN batches}

\* C27: gen_moves emits the same batches when pinned is replaced by its part
\* within occupied[stm].
GenMovesIgnoresOpponentPins ==
    GenBatches(board)
        = GenBatches([board EXCEPT !.pinned = @ \cap board.occupied[board.stm]])

\* The right the rules leave of a right of color c on the file old after the
\* last move
RefRightAfter(c, old) ==
    LET mover == prev.stm
        pos == RefPos(prev)
        from == MoveFrom(last)
        to == MoveTo(last)
        king_moved == pos[from] = RefCode(mover, King)
        rook_left == /\ pos[from] = RefCode(mover, Rook)
                     /\ RankOf(from) = RelativeTo(R1, mover)
                     /\ FileOf(from) = old
        rook_taken == /\ MoveFlagOf(last) # FlagCastle
                      /\ pos[to] = RefCode(c, Rook)
                      /\ RankOf(to) = RelativeTo(R1, c)
                      /\ FileOf(to) = old
    IN IF old = NoFile THEN NoFile
       ELSE IF c = mover /\ (king_moved \/ rook_left) THEN NoFile
       ELSE IF c # mover /\ rook_taken THEN NoFile
       ELSE old

\* C28: make_move never sets a castling right; it clears both rights of the
\* mover when the king moves or castles, the mover's right on a file when the
\* mover's rook leaves the back rank square of that file, the opponent's
\* right on a file when a rook of the opponent is captured on the opponent's
\* back rank on that file; every other right is unchanged.
CastlesChangeAsStated ==
    last # NoMove =>
        \A c \in Colors :
            /\ board.castles[c].short = RefRightAfter(c, prev.castles[c].short)
            /\ board.castles[c].long = RefRightAfter(c, prev.castles[c].long)

\* A rook that carried a right has been captured on its back rank
CastlesChangeAsStatedWitness ==
    /\ last # NoMove
    /\ \E f \in {prev.castles[board.stm].short, prev.castles[board.stm].long} \ {NoFile} :
        /\ MoveTo(last) = FromFileRank(f, RelativeTo(R1, board.stm))
        /\ RefPos(prev)[MoveTo(last)] = RefCode(board.stm, Rook)

\* C29: the FEN written for the board with chess960 = false is read back by
\* read_fen as a board equal to it in every field.
FenRoundTrip ==
    LET r == read_fen(fen(board, FALSE))
    IN r.ok /\ r.board = board

\* C30: reading a text never pushes the file counter of a rank past 255, and
\* no text that does is accepted.
FileCounterFits ==
    /\ ~read_fen_overflows(input)
    /\ ~(read_fen_overflows(input) /\ parsed.ok)

====
